---------------------------- MODULE Spec2Model ----------------------------
(***************************************************************************)
(* Heavy-flavour filter helpers (HFFilterHelpers.h, kept in                *)
(* GammaTableProducer.cxx): the selection helpers are pure functions of a  *)
(* track / candidate and of the configured cuts.  Each helper is an        *)
(* operator translated from its code; each action is one call of a helper  *)
(* with inputs drawn from small sets, and records the call, its arguments  *)
(* and what it returned.  Floating-point quantities are fixed-point        *)
(* integers: n-sigma values and calibration tables in tenths, BDT scores   *)
(* in hundredths, momenta and masses in MeV, eta in tenths, pT and impact  *)
(* parameters in tenths.                                                   *)
(*                                                                         *)
(* The dalitzPairing task (DalitzSelection.cxx) is a state machine over    *)
(* its two maps: init, then per data frame one step per collision and the  *)
(* final loop that writes the DalitzBits rows.                             *)
(* The skimmerGamma task (GammaTableProducer.cxx) is a state machine over  *)
(* its filter histogram and its output table, one step per cluster.        *)
(***************************************************************************)
EXTENDS Integers, Sequences, FiniteSets, TLC

VARIABLES
  call,   \* the helper that ran last ("none" before the first call)
  args,   \* the arguments of that call, a record
  ret,    \* what the call returned
  fatal,  \* TRUE once LOG(fatal) was reached: the run is aborted
  pc,              \* dalitzPairing: where the task is
  fTrackCuts,      \* dalitzPairing: the configured track cuts, by cut index
  fPairCuts,       \* dalitzPairing: the configured pair cuts, by cut index
  fQA,             \* dalitzPairing: the cfgQA switch
  fTrackmap,       \* dalitzPairing: std::map track index -> uint8_t
  fDalitzmap,      \* dalitzPairing: std::map track index -> uint8_t
  frame,           \* dalitzPairing: the tables of the data frame being processed
  iCollision,      \* dalitzPairing: position of the loop over collisions
  isEventSelected, \* dalitzPairing: the event cut on the current collision
  dalitzbits,      \* dalitzPairing: the rows written to the DalitzBits table
  caloclusters,       \* skimmerGamma: the clusters the loop of processRec has gone through
  hCaloClusterFilter, \* skimmerGamma: entries of the four bins of the filter histogram
  hCaloClusterEIn,    \* skimmerGamma: entries of the energy histogram of all clusters
  hCaloClusterEOut,   \* skimmerGamma: entries of the energy histogram of kept clusters
  tableGammaReco      \* skimmerGamma: the rows written to the SkimGammas table

\* the state of the dalitzPairing task
dalitzVars ==
  <<pc, fTrackCuts, fPairCuts, fQA, fTrackmap, fDalitzmap, frame, iCollision, isEventSelected, dalitzbits>>

\* the state of the skimmerGamma task
skimVars == <<caloclusters, hCaloClusterFilter, hCaloClusterEIn, hCaloClusterEOut, tableGammaReco>>

\* the state of the two tasks
taskVars == <<dalitzVars, skimVars>>

\* the record of the last helper call
helperVars == <<call, args, ret>>

vars == <<call, args, ret, fatal, taskVars>>

Init ==
  /\ call = "none"
  /\ args = <<>>
  /\ ret = 0
  /\ fatal = FALSE
  /\ pc = "constructed"
  /\ fTrackCuts = <<>>
  /\ fPairCuts = <<>>
  /\ fQA = TRUE
  /\ fTrackmap = <<>>
  /\ fDalitzmap = <<>>
  /\ frame = <<>>
  /\ iCollision = 0
  /\ isEventSelected = FALSE
  /\ dalitzbits = <<>>
  /\ caloclusters = <<>>
  /\ hCaloClusterFilter = [bin \in 0 .. 3 |-> 0]
  /\ hCaloClusterEIn = 0
  /\ hCaloClusterEOut = 0
  /\ tableGammaReco = <<>>

\* a helper is called on a freshly built input: no call yet, no abort
Idle == call = "none" /\ ~fatal

(***************************************************************************)
(* Small numeric helpers.                                                  *)
(***************************************************************************)
Abs(x) == IF x < 0 THEN -x ELSE x

Min(a, b) == IF a < b THEN a ELSE b

Range(s) == {s[i] : i \in 1 .. Len(s)}

\* std::pow(2, i) for the bit positions used by BIT(i) / TESTBIT(v, i)
RECURSIVE Pow2(_)
Pow2(i) == IF i = 0 THEN 1 ELSE 2 * Pow2(i - 1)

BIT(i) == Pow2(i)

TESTBIT(v, i) == (v \div Pow2(i)) % 2 = 1

\* v | BIT(i) on a non-negative value
SetBit(v, i) == IF TESTBIT(v, i) THEN v ELSE v + BIT(i)

\* all sequences over S of length at most n
SeqsUpTo(S, n) == UNION {[1 .. k -> S] : k \in 0 .. n}

(***************************************************************************)
(* computeNumberOfCandidates                                               *)
(***************************************************************************)
\* bound: the number of candidates of one event
MaxCand == 3

\* the daughter-track indices an event uses, and the prongs of a candidate
TrackIdx == 1 .. 4

ProngCounts == 0 .. 2

IndexLists == UNION {[1 .. k -> TrackIdx] : k \in ProngCounts}

\* the two inner loops: hasOverlap is set when some index of the first
\* candidate equals some index of the second (the break leaves only the
\* inner loop, hasOverlap stays set)
hasOverlap(first, second) ==
  \E idxFirst \in 1 .. Len(first) : \E idxSecond \in 1 .. Len(second) :
    first[idxFirst] = second[idxSecond]

\* the loop over iCandSecond: candidates other than iCand without overlap
nIndependent(indices, iCand) ==
  Cardinality({iCandSecond \in 1 .. Len(indices) :
                 /\ iCandSecond # iCand
                 /\ ~hasOverlap(indices[iCand], indices[iCandSecond])})

\* numIndependentCand after the outer loop, in push_back order
numIndependentCand(indices) ==
  [iCand \in 1 .. Len(indices) |-> nIndependent(indices, iCand)]

\* std::sort on a vector of int: insertion into an ascending sequence
RECURSIVE SortInsert(_, _)
SortInsert(s, x) ==
  IF s = <<>> THEN <<x>>
  ELSE IF x <= Head(s) THEN <<x>> \o s
  ELSE <<Head(s)>> \o SortInsert(Tail(s), x)

RECURSIVE StdSort(_)
StdSort(s) == IF s = <<>> THEN <<>> ELSE SortInsert(StdSort(Tail(s)), Head(s))

Back(s) == s[Len(s)]

Front(s) == s[1]

\* mutant: tests the smallest count (front of the sorted vector)
computeNumberOfCandidates_front(indices) ==
  IF Len(indices) < 2 THEN Len(indices)
  ELSE LET sorted == StdSort(numIndependentCand(indices))
       IN  IF Front(sorted) = 0 THEN Front(sorted) ELSE 2

computeNumberOfCandidates(indices) ==
  IF Len(indices) < 2 THEN Len(indices)
  ELSE LET sorted == StdSort(numIndependentCand(indices))
       IN  IF Back(sorted) = 0 THEN Back(sorted) ELSE 2

CallComputeNumberOfCandidates ==
  /\ Idle
  /\ \E indices \in SeqsUpTo(IndexLists, MaxCand) :
       /\ call' = "computeNumberOfCandidates"
       /\ args' = [indices |-> indices]
       /\ ret' = computeNumberOfCandidates(indices)
  /\ UNCHANGED <<fatal, taskVars>>

NextCount == CallComputeNumberOfCandidates

SpecCount == Init /\ [][NextCount]_vars

\* two daughter-index lists share at least one index
SharesIndex(a, b) == Range(a) \cap Range(b) # {}

\* C1: computeNumberOfCandidates returns the list size (0 or 1) for fewer
\* than two candidates; otherwise 0 when every pair of distinct candidates
\* shares an index and 2 when some pair of distinct candidates shares none;
\* [{1,2},{1,3}] gives 0, [{1,2},{3,4}] gives 2, [{1,2}] gives 1, the empty
\* list gives 0, and the result is always one of 0, 1, 2.
C1_NumberOfCandidates ==
  call = "computeNumberOfCandidates" =>
    LET ind == args.indices
        n == Len(ind)
        allShare == \A i, j \in 1 .. n : i # j => SharesIndex(ind[i], ind[j])
    IN  /\ ret \in {0, 1, 2}
        /\ n < 2 => ret = n
        /\ (n >= 2 /\ allShare) => ret = 0
        /\ (n >= 2 /\ ~allShare) => ret = 2
        /\ ind = << <<1, 2>>, <<1, 3>> >> => ret = 0
        /\ ind = << <<1, 2>>, <<3, 4>> >> => ret = 2
        /\ ind = << <<1, 2>> >> => ret = 1
        /\ ind = <<>> => ret = 0

\* three candidates, the second overlapping both others, the first and third
\* independent of each other: the result is 2
C1_Witness ==
  /\ call = "computeNumberOfCandidates"
  /\ args.indices = << <<1, 2>>, <<1, 3>>, <<3, 4>> >>
  /\ ret = 2

(***************************************************************************)
(* ML helpers: PredictONNX and isBDTSelected                               *)
(***************************************************************************)
\* RecoDecay::OriginType: None = 0, Prompt, NonPrompt
OriginTypePrompt == 1

OriginTypeNonPrompt == 2

\* scores a model can give, in hundredths (a probability in [0, 1])
ModelScores == {10, 50, 80, 90, 99}

\* any value a score container may hold, in hundredths
ScoreVals == ModelScores \cup {-100, 200}

\* thresholdBDTScores rows, in hundredths; the normal ones lie in [0, 1]
ThresholdVals == {-150, 0, 50, 100, 250}

Thresholds == [BDTbkg : ThresholdVals, BDTprompt : ThresholdVals, BDTnonprompt : ThresholdVals]

NormalThresholds(thr) ==
  /\ thr.BDTbkg \in 0 .. 100
  /\ thr.BDTprompt \in 0 .. 100
  /\ thr.BDTnonprompt \in 0 .. 100

\* std::array<T, 3> scores{-1., 2., 2.}
DefaultScores == <<-100, 200, 200>>

\* mutant: the array is value-initialised, scores{}
PredictONNX_zeroInit(threw, outputTensor) ==
  IF threw THEN <<0, 0, 0>> ELSE outputTensor

\* mutant: a failed inference returns no scores
PredictONNX_noScoresOnFailure(threw, outputTensor) ==
  IF threw THEN <<>> ELSE outputTensor

\* session->Run either throws Ort::Exception, which is caught and logged and
\* leaves scores as initialised, or gives the three output scores
PredictONNX(threw, outputTensor) ==
  IF threw THEN DefaultScores ELSE outputTensor

\* mutant: the background cut is skipped
isBDTSelected_noBkgCut(scores, thresholdBDTScores) ==
  IF Len(scores) < 3 THEN 0
  ELSE (IF scores[2] > thresholdBDTScores.BDTprompt THEN BIT(OriginTypePrompt) ELSE 0)
       + (IF scores[3] > thresholdBDTScores.BDTnonprompt THEN BIT(OriginTypeNonPrompt) ELSE 0)

\* mutant: the prompt score is compared with >=
isBDTSelected_promptGeq(scores, thresholdBDTScores) ==
  IF Len(scores) < 3 THEN 0
  ELSE IF scores[1] > thresholdBDTScores.BDTbkg THEN 0
  ELSE (IF scores[2] >= thresholdBDTScores.BDTprompt THEN BIT(OriginTypePrompt) ELSE 0)
       + (IF scores[3] > thresholdBDTScores.BDTnonprompt THEN BIT(OriginTypeNonPrompt) ELSE 0)

\* mutant: a short score container is accepted as prompt and non-prompt
isBDTSelected_failOpen(scores, thresholdBDTScores) ==
  IF Len(scores) < 3 THEN BIT(OriginTypePrompt) + BIT(OriginTypeNonPrompt)
  ELSE IF scores[1] > thresholdBDTScores.BDTbkg THEN 0
  ELSE (IF scores[2] > thresholdBDTScores.BDTprompt THEN BIT(OriginTypePrompt) ELSE 0)
       + (IF scores[3] > thresholdBDTScores.BDTnonprompt THEN BIT(OriginTypeNonPrompt) ELSE 0)

\* the scores (by position in the code) and thresholds isBDTSelected reads
isBDTSelectedReads(scores, thresholdBDTScores) ==
  IF Len(scores) < 3 THEN {}
  ELSE IF scores[1] > thresholdBDTScores.BDTbkg THEN {"scores[0]", "BDTbkg"}
  ELSE {"scores[0]", "BDTbkg", "scores[1]", "BDTprompt", "scores[2]", "BDTnonprompt"}

\* scores[0], scores[1], scores[2] of the code are scores[1..3] here
isBDTSelected(scores, thresholdBDTScores) ==
  IF Len(scores) < 3 THEN 0
  ELSE IF scores[1] > thresholdBDTScores.BDTbkg THEN 0
  ELSE (IF scores[2] > thresholdBDTScores.BDTprompt THEN BIT(OriginTypePrompt) ELSE 0)
       + (IF scores[3] > thresholdBDTScores.BDTnonprompt THEN BIT(OriginTypeNonPrompt) ELSE 0)

\* LOG(error) in the catch block: an error is logged exactly when
\* session->Run threw
PredictONNXLogsError(threw) == threw

\* a first call, or a later call on the same session; errorLogged is what
\* the call wrote to the log, afterFailure tells that the call before it
\* caught an exception
CallPredictONNX ==
  /\ ~fatal
  /\ call \in {"none", "PredictONNX"}
  /\ \E threw \in BOOLEAN :
       \E outputTensor \in (IF threw THEN {<<>>} ELSE [1 .. 3 -> ModelScores]) :
         /\ call' = "PredictONNX"
         /\ args' = [threw |-> threw, outputTensor |-> outputTensor,
                     errorLogged |-> PredictONNXLogsError(threw),
                     afterFailure |-> (call = "PredictONNX" /\ args.threw)]
         /\ ret' = PredictONNX(threw, outputTensor)
  /\ UNCHANGED <<fatal, taskVars>>

\* isBDTSelected on a score container of any size
CallIsBDTSelected ==
  /\ Idle
  /\ \E scores \in SeqsUpTo(ScoreVals, 3), thr \in Thresholds :
       /\ call' = "isBDTSelected"
       /\ args' = [scores |-> scores, thresholdBDTScores |-> thr,
                   fromPredictONNX |-> FALSE, inferenceFailed |-> FALSE]
       /\ ret' = isBDTSelected(scores, thr)
  /\ UNCHANGED <<fatal, taskVars>>

\* isBDTSelected on the scores PredictONNX has just returned
CallIsBDTSelectedOnPrediction ==
  /\ call = "PredictONNX"
  /\ ~fatal
  /\ \E thr \in Thresholds :
       /\ call' = "isBDTSelected"
       /\ args' = [scores |-> ret, thresholdBDTScores |-> thr,
                   fromPredictONNX |-> TRUE, inferenceFailed |-> args.threw]
       /\ ret' = isBDTSelected(ret, thr)
  /\ UNCHANGED <<fatal, taskVars>>

\* mutant: the model is fetched whenever loading from CCDB is enabled
RetrieveAttempted_anyTimestamp(loadModelsFromCCDB, timestampCCDB) == loadModelsFromCCDB

\* loadModelsFromCCDB && timestampCCDB > 0
RetrieveAttempted(loadModelsFromCCDB, timestampCCDB) == loadModelsFromCCDB /\ timestampCCDB > 0

\* InitONNXSession: what it leaves in session, inputShapes and dataType and
\* whether LOG(fatal) is reached.  retrieveBlob is what ccdbApi.retrieveBlob
\* would return, modelShape the input shape of the model in onnxFile and
\* modelElementType its element type; inputShapes and dataType are the
\* caller's values before the call.
InitONNXSession(inputShapes, dataType, loadModelsFromCCDB, timestampCCDB, retrieveBlob, modelShape, modelElementType) ==
  LET retrieveSuccess == IF RetrieveAttempted(loadModelsFromCCDB, timestampCCDB) THEN retrieveBlob ELSE TRUE
  IN  IF retrieveSuccess
      THEN [session |-> "Session{env, onnxFile, sessionOpt}",
            inputShapes |-> IF modelShape[1] < 0 THEN <<1, modelShape[2]>> ELSE modelShape,
            dataType |-> modelElementType,
            fatal |-> FALSE]
      ELSE [session |-> "nullptr", inputShapes |-> inputShapes, dataType |-> dataType, fatal |-> TRUE]

\* the first input shape of a model: batch dimension (negative when
\* unknown) and number of features
ModelShapes == {<<-1, 3>>, <<1, 3>>, <<1, 5>>}

\* ONNX element types: 1 float, 11 double
ModelElementTypes == {1, 11}

TimestampVals == {-1, 0, 1}

CallInitONNXSession ==
  /\ Idle
  /\ \E loadModelsFromCCDB \in BOOLEAN, timestampCCDB \in TimestampVals, retrieveBlob \in BOOLEAN,
        modelShape \in ModelShapes, modelElementType \in ModelElementTypes :
       LET result == InitONNXSession(<<>>, 0, loadModelsFromCCDB, timestampCCDB, retrieveBlob,
                                     modelShape, modelElementType)
       IN  /\ call' = "InitONNXSession"
           /\ args' = [loadModelsFromCCDB |-> loadModelsFromCCDB, timestampCCDB |-> timestampCCDB,
                       retrieveBlob |-> retrieveBlob, modelShape |-> modelShape,
                       modelElementType |-> modelElementType,
                       retrieveAttempted |-> RetrieveAttempted(loadModelsFromCCDB, timestampCCDB)]
           /\ ret' = [session |-> result.session, inputShapes |-> result.inputShapes,
                      dataType |-> result.dataType]
           /\ fatal' = result.fatal
  /\ UNCHANGED taskVars

NextBDT ==
  \/ CallPredictONNX
  \/ CallIsBDTSelected
  \/ CallIsBDTSelectedOnPrediction
  \/ CallInitONNXSession

SpecBDT == Init /\ [][NextBDT]_vars

\* C3: isBDTSelected returns the empty bitmask whenever scores[0] is above
\* the background threshold, whatever the other two scores and thresholds
\* are; scores {0.9, 0.99, 0.99} with background threshold 0.5 give 0.
C3_BackgroundRejects ==
  (call = "isBDTSelected" /\ Len(args.scores) >= 3) =>
    /\ args.scores[1] > args.thresholdBDTScores.BDTbkg => ret = 0
    /\ (args.scores = <<90, 99, 99>> /\ args.thresholdBDTScores.BDTbkg = 50) => ret = 0

\* background 0.9 above 0.5, both other scores above their thresholds
C3_Witness ==
  /\ call = "isBDTSelected"
  /\ args.scores = <<90, 99, 99>>
  /\ args.thresholdBDTScores = [BDTbkg |-> 50, BDTprompt |-> 0, BDTnonprompt |-> 0]
  /\ ret = 0

\* C4: when the background score is not above its threshold, the prompt bit
\* is set iff scores[1] is strictly above the prompt threshold and the
\* non-prompt bit iff scores[2] is strictly above the non-prompt threshold;
\* the bits are distinct, both may be set, no other bit is set; scores
\* {0.1, 0.8, 0.1} with all thresholds 0.5 give the prompt bit only.
C4_PromptNonPromptBits ==
  (/\ call = "isBDTSelected"
   /\ Len(args.scores) >= 3
   /\ ~(args.scores[1] > args.thresholdBDTScores.BDTbkg)) =>
    LET thr == args.thresholdBDTScores
        promptBit == 2
        nonPromptBit == 4
    IN  /\ (ret \div promptBit) % 2 = 1 <=> args.scores[2] > thr.BDTprompt
        /\ (ret \div nonPromptBit) % 2 = 1 <=> args.scores[3] > thr.BDTnonprompt
        /\ ret \in {0, promptBit, nonPromptBit, promptBit + nonPromptBit}
        /\ (/\ args.scores = <<10, 80, 10>>
            /\ thr = [BDTbkg |-> 50, BDTprompt |-> 50, BDTnonprompt |-> 50]) => ret = promptBit

\* both bits set at once
C4_Witness ==
  /\ call = "isBDTSelected"
  /\ args.scores = <<10, 80, 99>>
  /\ args.thresholdBDTScores = [BDTbkg |-> 50, BDTprompt |-> 50, BDTnonprompt |-> 50]
  /\ ret = 6

\* C5 as stated: with normal thresholds (each in [0, 1]) isBDTSelected on the
\* score triple {-1, 2, 2} that PredictONNX returns after a failed inference
\* gives the empty bitmask.
C5_SentinelRejected ==
  (/\ call = "isBDTSelected"
   /\ args.inferenceFailed
   /\ NormalThresholds(args.thresholdBDTScores)) => ret = 0

\* C5 as amended: with normal thresholds (each in [0, 1]) the score triple
\* {-1, 2, 2} that PredictONNX returns after a failed inference passes every
\* test of isBDTSelected: -1 is not above the background threshold and 2 is
\* above the prompt and the non-prompt threshold, so both bits are set.
C5_SentinelAccepted ==
  /\ (call = "PredictONNX" /\ args.threw) => ret = <<-100, 200, 200>>
  /\ (/\ call = "isBDTSelected"
      /\ args.inferenceFailed
      /\ NormalThresholds(args.thresholdBDTScores)) => ret = 6

\* a failed inference tagged under thresholds of 0.5
C5_Witness ==
  /\ call = "isBDTSelected"
  /\ args.inferenceFailed
  /\ args.thresholdBDTScores = [BDTbkg |-> 50, BDTprompt |-> 50, BDTnonprompt |-> 50]
  /\ ret = 6

(***************************************************************************)
(* PID post-calibration: getTPCPostCalib                                    *)
(***************************************************************************)
\* enum PIDSpecies
kEl == 0

kKa == 1

kPi == 2

kPr == 3

\* a species tag that is no member of PIDSpecies
kUnknownSpecies == 4

\* bounds: the bins of the three axes of a calibration map
NBinsNCls == 2

NBinsPin == 2

NBinsEta == 2

\* axes of a calibration map: TPC clusters found; TPC inner momentum in
\* tenths of GeV/c; pseudorapidity in tenths
AxisNCls == [nbins |-> NBinsNCls, xmin |-> 60, xmax |-> 160]

AxisPin == [nbins |-> NBinsPin, xmin |-> 2, xmax |-> 102]

AxisEta == [nbins |-> NBinsEta, xmin |-> -10, xmax |-> 10]

\* TAxis::FindBin on an axis of equal bins: 0 below the axis, nbins + 1 at
\* or above its upper edge, else the bin holding x
FindBin(axis, x) ==
  IF x < axis.xmin THEN 0
  ELSE IF ~(x < axis.xmax) THEN axis.nbins + 1
  ELSE 1 + (axis.nbins * (x - axis.xmin)) \div (axis.xmax - axis.xmin)

\* the cells of a TH3F, under- and overflow cells included
Cells == (0 .. NBinsNCls + 1) \X (0 .. NBinsPin + 1) \X (0 .. NBinsEta + 1)

InnerCell(c) ==
  /\ c[1] \in 1 .. NBinsNCls
  /\ c[2] \in 1 .. NBinsPin
  /\ c[3] \in 1 .. NBinsEta

\* the calibration maps the provider can deliver (hMapPion / hMapProton):
\* means in {-1, 0, 1}, widths in {0.5, 1}, in tenths; under- and overflow
\* cells are never filled
CalibMaps == {1, 2}

hCalibMeanOf(map) ==
  [c \in Cells |-> IF InnerCell(c) THEN (((c[1] + 2 * c[2] + c[3] + map) % 3) - 1) * 10 ELSE 0]

hCalibSigmaOf(map) ==
  [c \in Cells |-> IF InnerCell(c) THEN (IF (c[1] + c[2] + c[3] + map) % 2 = 0 THEN 5 ELSE 10) ELSE 0]

\* TH3::GetBinContent(binx, biny, binz)
GetBinContent(hist, binx, biny, binz) == hist[<<binx, biny, binz>>]

\* mutant: underflow is moved to bin 1, overflow is not moved
ClampBin_noMin(bin, nbins) == IF bin = 0 THEN 1 ELSE bin

\* bin = (bin == 0 ? 1 : bin); bin = std::min(axis->GetNbins(), bin)
ClampBin(bin, nbins) == Min(nbins, IF bin = 0 THEN 1 ELSE bin)

\* the three bin indices the maps are read at
PostCalibBins(track) ==
  [binTPCNCls |-> ClampBin(FindBin(AxisNCls, track.tpcNClsFound), AxisNCls.nbins),
   binPin |-> ClampBin(FindBin(AxisPin, track.tpcInnerParam), AxisPin.nbins),
   binEta |-> ClampBin(FindBin(AxisEta, track.eta), AxisEta.nbins)]

\* mutant: kEl is let through as well
PostCalibSpeciesKnown_withEl(pidSpecies) == pidSpecies \in {kEl, kKa, kPi, kPr}

\* the species tags with a branch of their own; every other tag reaches
\* LOG(fatal)
PostCalibSpeciesKnown(pidSpecies) == pidSpecies \in {kKa, kPi, kPr}

\* the raw deviation of the species (0. when no branch assigns it)
PostCalibRawNSigma(track, pidSpecies) ==
  IF pidSpecies = kKa THEN track.tpcNSigmaKa
  ELSE IF pidSpecies = kPi THEN track.tpcNSigmaPi
  ELSE IF pidSpecies = kPr THEN track.tpcNSigmaPr
  ELSE 0

\* float division of two values in tenths, result in tenths; x / 0 is an
\* infinity, which is above every threshold
FloatDiv(num, den) ==
  IF den = 0 THEN (IF num < 0 THEN -1000000 ELSE 1000000)
  ELSE (num * 10) \div den

\* mutant: the mean is not subtracted
getTPCPostCalib_noMean(hCalibMean, hCalibSigma, track, pidSpecies) ==
  LET bins == PostCalibBins(track)
      width == GetBinContent(hCalibSigma, bins.binTPCNCls, bins.binPin, bins.binEta)
  IN  FloatDiv(PostCalibRawNSigma(track, pidSpecies), width)

getTPCPostCalib(hCalibMean, hCalibSigma, track, pidSpecies) ==
  LET bins == PostCalibBins(track)
      mean == GetBinContent(hCalibMean, bins.binTPCNCls, bins.binPin, bins.binEta)
      width == GetBinContent(hCalibSigma, bins.binTPCNCls, bins.binPin, bins.binEta)
  IN  FloatDiv(PostCalibRawNSigma(track, pidSpecies) - mean, width)

\* track observables the calibration reads
NClsVals == {50, 60, 110, 160, 200}

PinVals == {1, 2, 60, 102, 150}

EtaVals == {-12, -10, -5, 5, 10, 12}

CallGetTPCPostCalib ==
  /\ Idle
  /\ \E map \in CalibMaps, pidSpecies \in {kEl, kKa, kPi, kPr, kUnknownSpecies},
        ncls \in NClsVals, pin \in PinVals, eta \in EtaVals,
        nsKa \in {-20, 30}, nsPi \in {-10, 40}, nsPr \in {0, 20} :
       LET track == [tpcNClsFound |-> ncls, tpcInnerParam |-> pin, eta |-> eta,
                     tpcNSigmaKa |-> nsKa, tpcNSigmaPi |-> nsPi, tpcNSigmaPr |-> nsPr]
       IN  /\ call' = "getTPCPostCalib"
           /\ args' = [map |-> map, track |-> track, pidSpecies |-> pidSpecies]
           /\ IF PostCalibSpeciesKnown(pidSpecies)
              THEN /\ fatal' = FALSE
                   /\ ret' = [value |-> getTPCPostCalib(hCalibMeanOf(map), hCalibSigmaOf(map), track, pidSpecies),
                              bins |-> PostCalibBins(track)]
              ELSE /\ fatal' = TRUE
                   /\ ret' = [value |-> 0, bins |-> [binTPCNCls |-> 0, binPin |-> 0, binEta |-> 0]]
  /\ UNCHANGED taskVars

\* C6: in getTPCPostCalib, for every cluster count, inner momentum and
\* pseudorapidity, values below the first and above the last bin edge
\* included, each of the three bin indices the maps are read at lies in
\* [1, N], N the number of bins of its axis: underflow is read at bin 1 and
\* overflow at bin N.
C6_BinsClamped ==
  (call = "getTPCPostCalib" /\ ~fatal) =>
    LET t == args.track
        b == ret.bins
    IN  /\ b.binTPCNCls \in 1 .. NBinsNCls
        /\ b.binPin \in 1 .. NBinsPin
        /\ b.binEta \in 1 .. NBinsEta
        /\ t.tpcNClsFound < AxisNCls.xmin => b.binTPCNCls = 1
        /\ t.tpcNClsFound >= AxisNCls.xmax => b.binTPCNCls = NBinsNCls
        /\ t.tpcInnerParam < AxisPin.xmin => b.binPin = 1
        /\ t.tpcInnerParam >= AxisPin.xmax => b.binPin = NBinsPin
        /\ t.eta < AxisEta.xmin => b.binEta = 1
        /\ t.eta >= AxisEta.xmax => b.binEta = NBinsEta

\* a track below the cluster axis and above the momentum and eta axes
C6_Witness ==
  /\ call = "getTPCPostCalib"
  /\ ~fatal
  /\ args.track.tpcNClsFound = 50
  /\ args.track.tpcInnerParam = 150
  /\ args.track.eta = 12
  /\ ret.bins = [binTPCNCls |-> 1, binPin |-> NBinsPin, binEta |-> NBinsEta]

\* C7 as stated: getTPCPostCalib ends in the fatal error state only when the
\* species tag is none of electron, kaon, pion, proton.
C7_FourSpeciesAccepted ==
  call = "getTPCPostCalib" => (fatal <=> args.pidSpecies \notin {0, 1, 2, 3})

\* C7 as amended: getTPCPostCalib accepts kaon, pion and proton and returns
\* (raw deviation of that species - mean) / sigma, read at the clamped bins;
\* it ends in the fatal error state for every other tag, electron included.
C7_ThreeSpeciesAccepted ==
  call = "getTPCPostCalib" =>
    LET t == args.track
        sp == args.pidSpecies
        cell == <<ret.bins.binTPCNCls, ret.bins.binPin, ret.bins.binEta>>
        mean == hCalibMeanOf(args.map)[cell]
        sigma == hCalibSigmaOf(args.map)[cell]
        raw == IF sp = 1 THEN t.tpcNSigmaKa ELSE IF sp = 2 THEN t.tpcNSigmaPi ELSE t.tpcNSigmaPr
    IN  /\ fatal <=> sp \notin {1, 2, 3}
        /\ ~fatal => (sigma > 0 /\ ret.value * sigma = (raw - mean) * 10)

\* the electron tag ends in the fatal error state
C7_Witness ==
  /\ call = "getTPCPostCalib"
  /\ args.pidSpecies = 0
  /\ fatal

(***************************************************************************)
(* Single-track selections                                                 *)
(***************************************************************************)
\* enum beautyTrackSelection
kRejected == 0

kSoftPion == 1

kRegular == 2

\* findBin (PWGHF analysis utilities): -1 below the first or at or above the
\* last edge, else the 0-based bin whose edges hold the value
findBin(bins, value) ==
  IF value < bins[1] THEN -1
  ELSE IF value >= bins[Len(bins)] THEN -1
  ELSE Cardinality({i \in 1 .. Len(bins) : bins[i] <= value}) - 1

\* LabeledArray::get(row, label) on the single-track cuts
CutGet(cuts, row, label) == cuts[label][row + 1]

\* mutant: the bachelor threshold is compared the other way round
isSelectedTrackForBeauty_swapped(track, pTMinSoftPion, pTMinBeautyBachelor, pTBinsTrack, cutsSingleTrackBeauty) ==
  LET pT == track.pt
      pTBinTrack == findBin(pTBinsTrack, pT)
  IN  IF pTBinTrack = -1 THEN kRejected
      ELSE IF pT < pTMinSoftPion THEN kRejected
      ELSE IF Abs(track.eta) > 8 THEN kRejected
      ELSE IF Abs(track.dcaZ) > 20 THEN kRejected
      ELSE IF Abs(track.dcaXY) < CutGet(cutsSingleTrackBeauty, pTBinTrack, "min_dcaxytoprimary") THEN kRejected
      ELSE IF Abs(track.dcaXY) > CutGet(cutsSingleTrackBeauty, pTBinTrack, "max_dcaxytoprimary") THEN kRejected
      ELSE IF pT > pTMinBeautyBachelor THEN kSoftPion
      ELSE kRegular

\* eta in tenths (0.8 is 8), dcaZ in tenths (2.f is 20)
isSelectedTrackForBeauty(track, pTMinSoftPion, pTMinBeautyBachelor, pTBinsTrack, cutsSingleTrackBeauty) ==
  LET pT == track.pt
      pTBinTrack == findBin(pTBinsTrack, pT)
  IN  IF pTBinTrack = -1 THEN kRejected
      ELSE IF pT < pTMinSoftPion THEN kRejected
      ELSE IF Abs(track.eta) > 8 THEN kRejected
      ELSE IF Abs(track.dcaZ) > 20 THEN kRejected
      ELSE IF Abs(track.dcaXY) < CutGet(cutsSingleTrackBeauty, pTBinTrack, "min_dcaxytoprimary") THEN kRejected
      ELSE IF Abs(track.dcaXY) > CutGet(cutsSingleTrackBeauty, pTBinTrack, "max_dcaxytoprimary") THEN kRejected
      ELSE IF pT < pTMinBeautyBachelor THEN kSoftPion
      ELSE kRegular

\* abs(NSigmaTOF) of isSelectedProton4Femto
FemtoAbsTOF(x) == Abs(x)

\* NSigma > femtoMaxNsigmaProton for NSigma = sqrt(tpc * tpc + tof * tof):
\* a square root is never negative and is monotone
QuadratureExceeds(tpc, tof, max) == max < 0 \/ tpc * tpc + tof * tof > max * max

\* NSigmaTPC after the computeTPCPostCalib branch of isSelectedProton4Femto
Proton4FemtoNSigmaTPC(track, computeTPCPostCalib, hMapProtonMean, hMapProtonSigma) ==
  IF computeTPCPostCalib
  THEN getTPCPostCalib(hMapProtonMean, hMapProtonSigma, track, kPr)
  ELSE track.tpcNSigmaPr

\* mutant: the post-calibrated value is computed and not used in the cut
isSelectedProton4Femto_rawTPC(track, femtoMinProtonPt, femtoMaxNsigmaProton, femtoProtonOnlyTOF, computeTPCPostCalib, hMapProtonMean, hMapProtonSigma) ==
  IF track.pt < femtoMinProtonPt THEN FALSE
  ELSE IF Abs(track.eta) > 8 THEN FALSE
  ELSE IF track.isGlobalTrack # 1 THEN FALSE
  ELSE IF femtoProtonOnlyTOF THEN ~(FemtoAbsTOF(track.tofNSigmaPr) > femtoMaxNsigmaProton)
  ELSE ~QuadratureExceeds(track.tpcNSigmaPr, track.tofNSigmaPr, femtoMaxNsigmaProton)

isSelectedProton4Femto(track, femtoMinProtonPt, femtoMaxNsigmaProton, femtoProtonOnlyTOF, computeTPCPostCalib, hMapProtonMean, hMapProtonSigma) ==
  LET NSigmaTPC == Proton4FemtoNSigmaTPC(track, computeTPCPostCalib, hMapProtonMean, hMapProtonSigma)
      NSigmaTOF == track.tofNSigmaPr
  IN  IF track.pt < femtoMinProtonPt THEN FALSE
      ELSE IF Abs(track.eta) > 8 THEN FALSE
      ELSE IF track.isGlobalTrack # 1 THEN FALSE
      ELSE IF femtoProtonOnlyTOF THEN ~(FemtoAbsTOF(NSigmaTOF) > femtoMaxNsigmaProton)
      ELSE ~QuadratureExceeds(NSigmaTPC, NSigmaTOF, femtoMaxNsigmaProton)

\* mutant: the histograms are filled from activateQA = 1 on
Proton4FemtoFills_fromOne(selected, activateQA, NSigmaTPC, NSigmaTOF) ==
  IF selected /\ activateQA > 0
  THEN << [hist |-> "hProtonTPCPID", y |-> NSigmaTPC], [hist |-> "hProtonTOFPID", y |-> NSigmaTOF] >>
  ELSE <<>>

\* the QA fills of one isSelectedProton4Femto call, in order
Proton4FemtoFills(selected, activateQA, NSigmaTPC, NSigmaTOF) ==
  IF selected /\ activateQA > 1
  THEN << [hist |-> "hProtonTPCPID", y |-> NSigmaTPC], [hist |-> "hProtonTOFPID", y |-> NSigmaTOF] >>
  ELSE <<>>

\* mutant: a track without TOF is rejected on its stored TOF deviation
isSelectedProton4CharmBaryons_tofAlways(track, nsigmaTPCProtonLc, nsigmaTOFProtonLc, computeTPCPostCalib, hMapProtonMean, hMapProtonSigma) ==
  LET NSigmaTPC == IF computeTPCPostCalib
                   THEN getTPCPostCalib(hMapProtonMean, hMapProtonSigma, track, kPr)
                   ELSE track.tpcNSigmaPr
  IN  IF Abs(NSigmaTPC) > nsigmaTPCProtonLc THEN FALSE
      ELSE IF Abs(track.tofNSigmaPr) > nsigmaTOFProtonLc THEN FALSE
      ELSE TRUE

isSelectedProton4CharmBaryons(track, nsigmaTPCProtonLc, nsigmaTOFProtonLc, computeTPCPostCalib, hMapProtonMean, hMapProtonSigma) ==
  LET NSigmaTPC == IF computeTPCPostCalib
                   THEN getTPCPostCalib(hMapProtonMean, hMapProtonSigma, track, kPr)
                   ELSE track.tpcNSigmaPr
      NSigmaTOF == track.tofNSigmaPr
  IN  IF Abs(NSigmaTPC) > nsigmaTPCProtonLc THEN FALSE
      ELSE IF track.hasTOF /\ Abs(NSigmaTOF) > nsigmaTOFProtonLc THEN FALSE
      ELSE TRUE

\* the pion maps are passed for the kaon correction
isSelectedKaon4Charm3Prong(track, nsigmaTPCKaon3Prong, nsigmaTOFKaon3Prong, computeTPCPostCalib, hMapPionMean, hMapPionSigma) ==
  LET NSigmaTPC == IF computeTPCPostCalib
                   THEN getTPCPostCalib(hMapPionMean, hMapPionSigma, track, kKa)
                   ELSE track.tpcNSigmaKa
      NSigmaTOF == track.tofNSigmaKa
  IN  IF Abs(NSigmaTPC) > nsigmaTPCKaon3Prong THEN FALSE
      ELSE IF track.hasTOF /\ Abs(NSigmaTOF) > nsigmaTOFKaon3Prong THEN FALSE
      ELSE TRUE

\* pT bin edges and per-bin impact-parameter cuts of the beauty bachelor
PtBinsTrack == <<5, 10, 20, 100>>

CutsSingleTrackBeauty ==
  {[min_dcaxytoprimary |-> <<0, 0, 0>>, max_dcaxytoprimary |-> <<10, 10, 10>>],
   [min_dcaxytoprimary |-> <<2, 1, 0>>, max_dcaxytoprimary |-> <<20, 10, 5>>]}

CallIsSelectedTrackForBeauty ==
  /\ Idle
  /\ \E pt \in {3, 5, 8, 10, 15, 25, 100, 120}, eta \in {-9, -8, 0, 8, 9},
        dcaZ \in {-25, -20, 0, 20, 21}, dcaXY \in {-15, -1, 0, 3, 8, 25},
        pTMinSoftPion \in {1, 8}, pTMinBeautyBachelor \in {5, 12, 20},
        cuts \in CutsSingleTrackBeauty :
       LET track == [pt |-> pt, eta |-> eta, dcaZ |-> dcaZ, dcaXY |-> dcaXY]
       IN  /\ call' = "isSelectedTrackForBeauty"
           /\ args' = [track |-> track, pTMinSoftPion |-> pTMinSoftPion,
                       pTMinBeautyBachelor |-> pTMinBeautyBachelor,
                       pTBinsTrack |-> PtBinsTrack, cutsSingleTrackBeauty |-> cuts]
           /\ ret' = isSelectedTrackForBeauty(track, pTMinSoftPion, pTMinBeautyBachelor, PtBinsTrack, cuts)
  /\ UNCHANGED <<fatal, taskVars>>

CallIsSelectedProton4Femto ==
  /\ Idle
  /\ \E pt \in {3, 5, 10}, eta \in {-9, -5, 5, 8}, isGlobalTrack \in {0, 1},
        ncls \in {60, 110}, tpc \in {-40, -20, 0, 30}, tof \in {-30, 0, 20},
        femtoMaxNsigmaProton \in {30, 36}, femtoProtonOnlyTOF \in BOOLEAN,
        computeTPCPostCalib \in BOOLEAN, map \in CalibMaps, activateQA \in {0, 1, 2} :
       LET track == [pt |-> pt, eta |-> eta, isGlobalTrack |-> isGlobalTrack,
                     tpcNClsFound |-> ncls, tpcInnerParam |-> 60,
                     tpcNSigmaPr |-> tpc, tofNSigmaPr |-> tof]
           selected == isSelectedProton4Femto(track, 5, femtoMaxNsigmaProton, femtoProtonOnlyTOF,
                                              computeTPCPostCalib, hCalibMeanOf(map), hCalibSigmaOf(map))
           NSigmaTPC == Proton4FemtoNSigmaTPC(track, computeTPCPostCalib, hCalibMeanOf(map), hCalibSigmaOf(map))
       IN  /\ call' = "isSelectedProton4Femto"
           /\ args' = [track |-> track, femtoMinProtonPt |-> 5,
                       femtoMaxNsigmaProton |-> femtoMaxNsigmaProton,
                       femtoProtonOnlyTOF |-> femtoProtonOnlyTOF,
                       computeTPCPostCalib |-> computeTPCPostCalib, map |-> map,
                       activateQA |-> activateQA]
           /\ ret' = [selected |-> selected,
                      fills |-> Proton4FemtoFills(selected, activateQA, NSigmaTPC, tof)]
  /\ UNCHANGED <<fatal, taskVars>>

\* observables of a track tested as proton or kaon
PidNClsVals == {60, 110}

PidPinVals == {2, 60}

PidEtaVals == {-5, 5}

PidTPCVals == {-40, -25, 0, 20, 30}

PidTOFVals == {-40, 0, 30}

PidCutVals == {20, 30}

CallIsSelectedProton4CharmBaryons ==
  /\ Idle
  /\ \E ncls \in PidNClsVals, pin \in PidPinVals, eta \in PidEtaVals,
        tpc \in PidTPCVals, tof \in PidTOFVals, hasTOF \in BOOLEAN,
        nsigmaTPCProtonLc \in PidCutVals, nsigmaTOFProtonLc \in PidCutVals,
        computeTPCPostCalib \in BOOLEAN, map \in CalibMaps :
       LET track == [tpcNClsFound |-> ncls, tpcInnerParam |-> pin, eta |-> eta,
                     tpcNSigmaPr |-> tpc, tofNSigmaPr |-> tof, hasTOF |-> hasTOF]
       IN  /\ call' = "isSelectedProton4CharmBaryons"
           /\ args' = [track |-> track, nsigmaTPC |-> nsigmaTPCProtonLc,
                       nsigmaTOF |-> nsigmaTOFProtonLc,
                       computeTPCPostCalib |-> computeTPCPostCalib, map |-> map]
           /\ ret' = isSelectedProton4CharmBaryons(track, nsigmaTPCProtonLc, nsigmaTOFProtonLc,
                                                   computeTPCPostCalib, hCalibMeanOf(map), hCalibSigmaOf(map))
  /\ UNCHANGED <<fatal, taskVars>>

CallIsSelectedKaon4Charm3Prong ==
  /\ Idle
  /\ \E ncls \in PidNClsVals, pin \in PidPinVals, eta \in PidEtaVals,
        tpc \in PidTPCVals, tof \in PidTOFVals, hasTOF \in BOOLEAN,
        nsigmaTPCKaon3Prong \in PidCutVals, nsigmaTOFKaon3Prong \in PidCutVals,
        computeTPCPostCalib \in BOOLEAN, map \in CalibMaps :
       LET track == [tpcNClsFound |-> ncls, tpcInnerParam |-> pin, eta |-> eta,
                     tpcNSigmaKa |-> tpc, tofNSigmaKa |-> tof, hasTOF |-> hasTOF]
       IN  /\ call' = "isSelectedKaon4Charm3Prong"
           /\ args' = [track |-> track, nsigmaTPC |-> nsigmaTPCKaon3Prong,
                       nsigmaTOF |-> nsigmaTOFKaon3Prong,
                       computeTPCPostCalib |-> computeTPCPostCalib, map |-> map]
           /\ ret' = isSelectedKaon4Charm3Prong(track, nsigmaTPCKaon3Prong, nsigmaTOFKaon3Prong,
                                                computeTPCPostCalib, hCalibMeanOf(map), hCalibSigmaOf(map))
  /\ UNCHANGED <<fatal, taskVars>>

\* the calls of the three selections that read a TPC deviation
PidCalls == {"isSelectedProton4Femto", "isSelectedProton4CharmBaryons", "isSelectedKaon4Charm3Prong"}

SingleTrackCalls == PidCalls \cup {"isSelectedTrackForBeauty"}

\* the TPC deviation a selection has to compare: the value getTPCPostCalib
\* returns for the track when the flag is set, the raw one when it is not
ComparedTPC ==
  LET t == args.track
      species == IF call = "isSelectedKaon4Charm3Prong" THEN kKa ELSE kPr
      raw == IF call = "isSelectedKaon4Charm3Prong" THEN t.tpcNSigmaKa ELSE t.tpcNSigmaPr
  IN  IF args.computeTPCPostCalib
      THEN getTPCPostCalib(hCalibMeanOf(args.map), hCalibSigmaOf(args.map), t, species)
      ELSE raw

\* the outcome of the current call when its TPC comparisons are made on tpc
OutcomeWithTPC(tpc) ==
  LET t == args.track
  IN  IF call = "isSelectedProton4Femto"
      THEN /\ t.pt >= args.femtoMinProtonPt
           /\ Abs(t.eta) <= 8
           /\ t.isGlobalTrack = 1
           /\ IF args.femtoProtonOnlyTOF
              THEN Abs(t.tofNSigmaPr) <= args.femtoMaxNsigmaProton
              ELSE /\ args.femtoMaxNsigmaProton >= 0
                   /\ tpc * tpc + t.tofNSigmaPr * t.tofNSigmaPr
                        <= args.femtoMaxNsigmaProton * args.femtoMaxNsigmaProton
      ELSE LET tof == IF call = "isSelectedKaon4Charm3Prong" THEN t.tofNSigmaKa ELSE t.tofNSigmaPr
           IN  /\ Abs(tpc) <= args.nsigmaTPC
               /\ (~t.hasTOF \/ Abs(tof) <= args.nsigmaTOF)

Selected == IF call = "isSelectedProton4Femto" THEN ret.selected ELSE ret

\* C8 as stated: each of the four single-track selections takes a
\* post-calibration flag, and with the flag set its TPC comparisons are made
\* on the value getTPCPostCalib returns, with the flag unset on the raw one.
C8_AllFourTakeFlag ==
  call \in SingleTrackCalls =>
    /\ "computeTPCPostCalib" \in DOMAIN args
    /\ call \in PidCalls => (Selected <=> OutcomeWithTPC(ComparedTPC))

\* C8 as amended: isSelectedProton4Femto, isSelectedProton4CharmBaryons and
\* isSelectedKaon4Charm3Prong take a post-calibration flag, and with the flag
\* set every comparison they make on the TPC deviation uses the value
\* getTPCPostCalib returns, with the flag unset the raw TPC deviation;
\* isSelectedTrackForBeauty takes no such flag and no calibration map, and
\* reads no PID deviation.
C8_ThreeTakeFlag ==
  /\ call \in PidCalls =>
       /\ "computeTPCPostCalib" \in DOMAIN args
       /\ Selected <=> OutcomeWithTPC(ComparedTPC)
  /\ call = "isSelectedTrackForBeauty" =>
       /\ DOMAIN args = {"track", "pTMinSoftPion", "pTMinBeautyBachelor",
                         "pTBinsTrack", "cutsSingleTrackBeauty"}
       /\ DOMAIN args.track = {"pt", "eta", "dcaZ", "dcaXY"}

\* flag set, the raw proton deviation within the cut, the post-calibrated one
\* outside it: rejected, with no TOF to blame
C8_Witness ==
  /\ call = "isSelectedProton4CharmBaryons"
  /\ args.computeTPCPostCalib
  /\ ~args.track.hasTOF
  /\ Abs(args.track.tpcNSigmaPr) <= args.nsigmaTPC
  /\ Abs(ComparedTPC) > args.nsigmaTPC
  /\ ret = FALSE

\* C9: isSelectedProton4CharmBaryons and isSelectedKaon4Charm3Prong accept a
\* track iff |TPC deviation| <= the TPC threshold and (the track has no TOF
\* measurement or |TOF deviation| <= the TOF threshold); a track with the TPC
\* deviation within threshold and no TOF is accepted whatever its stored TOF
\* deviation is.
C9_TofAbsenceDoesNotVeto ==
  call \in {"isSelectedProton4CharmBaryons", "isSelectedKaon4Charm3Prong"} =>
    LET t == args.track
        tof == IF call = "isSelectedKaon4Charm3Prong" THEN t.tofNSigmaKa ELSE t.tofNSigmaPr
        tpcOk == Abs(ComparedTPC) <= args.nsigmaTPC
    IN  /\ ret <=> (tpcOk /\ (~t.hasTOF \/ Abs(tof) <= args.nsigmaTOF))
        /\ (tpcOk /\ ~t.hasTOF) => ret

\* a proton without TOF whose stored TOF deviation is beyond the TOF cut
C9_Witness ==
  /\ call = "isSelectedProton4CharmBaryons"
  /\ ~args.track.hasTOF
  /\ Abs(args.track.tofNSigmaPr) > args.nsigmaTOF
  /\ ret = TRUE

\* C10: isSelectedTrackForBeauty returns one of rejected (0), soft pion (1),
\* regular (2): rejected iff pT is in no pT bin, or pT < pTMinSoftPion, or
\* |eta| > 0.8, or |dcaZ| > 2, or |dcaXY| is below the bin's minimum or above
\* its maximum; otherwise soft pion iff pT < pTMinBeautyBachelor and regular
\* iff pT >= pTMinBeautyBachelor; so soft pion is returned only for
\* pTMinSoftPion <= pT < pTMinBeautyBachelor.
C10_BeautyTriState ==
  call = "isSelectedTrackForBeauty" =>
    LET t == args.track
        edges == args.pTBinsTrack
        inBin(i) == edges[i] <= t.pt /\ t.pt < edges[i + 1]
        noBin == \A i \in 1 .. Len(edges) - 1 : ~inBin(i)
        dcaOut == \E i \in 1 .. Len(edges) - 1 :
                    /\ inBin(i)
                    /\ \/ Abs(t.dcaXY) < args.cutsSingleTrackBeauty.min_dcaxytoprimary[i]
                       \/ Abs(t.dcaXY) > args.cutsSingleTrackBeauty.max_dcaxytoprimary[i]
        rejected == \/ noBin
                    \/ t.pt < args.pTMinSoftPion
                    \/ Abs(t.eta) > 8
                    \/ Abs(t.dcaZ) > 20
                    \/ dcaOut
    IN  /\ ret \in {0, 1, 2}
        /\ ret = 0 <=> rejected
        /\ ~rejected => (ret = 1 <=> t.pt < args.pTMinBeautyBachelor)
        /\ ~rejected => (ret = 2 <=> t.pt >= args.pTMinBeautyBachelor)
        /\ ret = 1 => (args.pTMinSoftPion <= t.pt /\ t.pt < args.pTMinBeautyBachelor)

\* a soft pion: pT 0.8 between pTMinSoftPion 0.8 and pTMinBeautyBachelor 1.2
C10_Witness ==
  /\ call = "isSelectedTrackForBeauty"
  /\ args.track.pt = 8
  /\ args.pTMinSoftPion = 8
  /\ args.pTMinBeautyBachelor = 12
  /\ ret = 1

NextPID ==
  \/ CallGetTPCPostCalib
  \/ CallIsSelectedTrackForBeauty
  \/ CallIsSelectedProton4Femto
  \/ CallIsSelectedProton4CharmBaryons
  \/ CallIsSelectedKaon4Charm3Prong

SpecPID == Init /\ [][NextPID]_vars

(***************************************************************************)
(* Charm-hadron preselections and mass-window selections                   *)
(***************************************************************************)
\* RecoDecay::getMassPDG, in MeV
massPi == 140

massK == 494

massProton == 938

massPhi == 1019

massD0 == 1865

massDPlus == 1870

massDs == 1968

massLc == 2286

massXic == 2468

\* std::sqrt on a non-negative value, rounded down to the unit
RECURSIVE ISqrtIter(_, _, _)
ISqrtIter(n, lo, hi) ==
  IF lo >= hi THEN lo
  ELSE LET mid == (lo + hi + 1) \div 2
       IN  IF mid * mid <= n THEN ISqrtIter(n, mid, hi) ELSE ISqrtIter(n, lo, mid - 1)

ISqrt(n) == ISqrtIter(n, 0, 46340)

\* sum of the values f[1] .. f[n]
RECURSIVE SumTo(_, _)
SumTo(f, n) == IF n = 0 THEN 0 ELSE f[n] + SumTo(f, n - 1)

\* RecoDecay::m: the invariant mass of N four-vectors built from momenta and
\* assigned masses, sqrt(E * E - |p| * |p|) with E the sum of
\* sqrt(|p_i| * |p_i| + m_i * m_i) and p the sum of the momenta
RecoDecayM(arrMom, arrMass) ==
  LET n == Len(arrMom)
      energy == [i \in 1 .. n |->
                   ISqrt(arrMom[i][1] * arrMom[i][1] + arrMom[i][2] * arrMom[i][2]
                         + arrMom[i][3] * arrMom[i][3] + arrMass[i] * arrMass[i])]
      energyTot == SumTo(energy, n)
      px == SumTo([i \in 1 .. n |-> arrMom[i][1]], n)
      py == SumTo([i \in 1 .. n |-> arrMom[i][2]], n)
      pz == SumTo([i \in 1 .. n |-> arrMom[i][3]], n)
  IN  ISqrt(energyTot * energyTot - (px * px + py * py + pz * pz))

\* mutant: the kaon test is skipped
isDplusPreselected_noKaonTest(trackOppositeCharge, nsigmaTPCKaon3Prong, nsigmaTOFKaon3Prong, computeTPCPostCalib, hMapPionMean, hMapPionSigma) ==
  BIT(0)

isDplusPreselected(trackOppositeCharge, nsigmaTPCKaon3Prong, nsigmaTOFKaon3Prong, computeTPCPostCalib, hMapPionMean, hMapPionSigma) ==
  IF ~isSelectedKaon4Charm3Prong(trackOppositeCharge, nsigmaTPCKaon3Prong, nsigmaTOFKaon3Prong,
                                 computeTPCPostCalib, hMapPionMean, hMapPionSigma)
  THEN 0
  ELSE BIT(0)

\* mutant: the second pair is tested against the first pair's mass
isDsPreselected_firstPairTwice(pTrackSameChargeFirst, pTrackSameChargeSecond, pTrackOppositeCharge, trackOppositeCharge, nsigmaTPCKaon3Prong, nsigmaTOFKaon3Prong, computeTPCPostCalib, hMapPionMean, hMapPionSigma) ==
  IF ~isSelectedKaon4Charm3Prong(trackOppositeCharge, nsigmaTPCKaon3Prong, nsigmaTOFKaon3Prong,
                                 computeTPCPostCalib, hMapPionMean, hMapPionSigma)
  THEN 0
  ELSE LET invMassKKFirst == RecoDecayM(<<pTrackSameChargeFirst, pTrackOppositeCharge>>, <<massK, massK>>)
       IN  IF Abs(invMassKKFirst - massPhi) < 20 THEN BIT(0) + BIT(1) ELSE 0

\* 0.02 GeV is 20 MeV
isDsPreselected(pTrackSameChargeFirst, pTrackSameChargeSecond, pTrackOppositeCharge, trackOppositeCharge, nsigmaTPCKaon3Prong, nsigmaTOFKaon3Prong, computeTPCPostCalib, hMapPionMean, hMapPionSigma) ==
  IF ~isSelectedKaon4Charm3Prong(trackOppositeCharge, nsigmaTPCKaon3Prong, nsigmaTOFKaon3Prong,
                                 computeTPCPostCalib, hMapPionMean, hMapPionSigma)
  THEN 0
  ELSE LET invMassKKFirst == RecoDecayM(<<pTrackSameChargeFirst, pTrackOppositeCharge>>, <<massK, massK>>)
           invMassKKSecond == RecoDecayM(<<pTrackSameChargeSecond, pTrackOppositeCharge>>, <<massK, massK>>)
       IN  (IF Abs(invMassKKFirst - massPhi) < 20 THEN BIT(0) ELSE 0)
           + (IF Abs(invMassKKSecond - massPhi) < 20 THEN BIT(1) ELSE 0)

\* mutant: the kaon test of the opposite-charge track does not veto
isCharmBaryonPreselected_noKaonVeto(trackSameChargeFirst, trackSameChargeSecond, trackOppositeCharge, nsigmaTPCProtonLc, nsigmaTOFProtonLc, nsigmaTPCKaon3Prong, nsigmaTOFKaon3Prong, computeTPCPostCalib, hMapProtonMean, hMapProtonSigma, hMapPionMean, hMapPionSigma) ==
  (IF isSelectedProton4CharmBaryons(trackSameChargeFirst, nsigmaTPCProtonLc, nsigmaTOFProtonLc,
                                    computeTPCPostCalib, hMapProtonMean, hMapProtonSigma)
   THEN BIT(0) ELSE 0)
  + (IF isSelectedProton4CharmBaryons(trackSameChargeSecond, nsigmaTPCProtonLc, nsigmaTOFProtonLc,
                                      computeTPCPostCalib, hMapProtonMean, hMapProtonSigma)
     THEN BIT(1) ELSE 0)

isCharmBaryonPreselected(trackSameChargeFirst, trackSameChargeSecond, trackOppositeCharge, nsigmaTPCProtonLc, nsigmaTOFProtonLc, nsigmaTPCKaon3Prong, nsigmaTOFKaon3Prong, computeTPCPostCalib, hMapProtonMean, hMapProtonSigma, hMapPionMean, hMapPionSigma) ==
  IF ~isSelectedKaon4Charm3Prong(trackOppositeCharge, nsigmaTPCKaon3Prong, nsigmaTOFKaon3Prong,
                                 computeTPCPostCalib, hMapPionMean, hMapPionSigma)
  THEN 0
  ELSE (IF isSelectedProton4CharmBaryons(trackSameChargeFirst, nsigmaTPCProtonLc, nsigmaTOFProtonLc,
                                         computeTPCPostCalib, hMapProtonMean, hMapProtonSigma)
        THEN BIT(0) ELSE 0)
       + (IF isSelectedProton4CharmBaryons(trackSameChargeSecond, nsigmaTPCProtonLc, nsigmaTOFProtonLc,
                                           computeTPCPostCalib, hMapProtonMean, hMapProtonSigma)
          THEN BIT(1) ELSE 0)

\* one of the four tests of isDzeroPreselected: TPC within the cut and, when
\* the track has TOF, TOF within the cut
DzeroPidOk(nSigmaTPC, nSigmaTOF, hasTOF, nsigmaTPCPionKaonDzero, nsigmaTOFPionKaonDzero) ==
  /\ Abs(nSigmaTPC) <= nsigmaTPCPionKaonDzero
  /\ (~hasTOF \/ Abs(nSigmaTOF) <= nsigmaTOFPionKaonDzero)

\* mutant: the D0bar hypothesis is proposed only when the D0 one is not
isDzeroPreselected_exclusive(trackPos, trackNeg, nsigmaTPCPionKaonDzero, nsigmaTOFPionKaonDzero, computeTPCPostCalib, hMapPionMean, hMapPionSigma) ==
  LET NSigmaPiTPCPos == IF computeTPCPostCalib THEN getTPCPostCalib(hMapPionMean, hMapPionSigma, trackPos, kPi)
                        ELSE trackPos.tpcNSigmaPi
      NSigmaPiTPCNeg == IF computeTPCPostCalib THEN getTPCPostCalib(hMapPionMean, hMapPionSigma, trackNeg, kPi)
                        ELSE trackNeg.tpcNSigmaPi
      NSigmaKaTPCPos == IF computeTPCPostCalib THEN getTPCPostCalib(hMapPionMean, hMapPionSigma, trackPos, kKa)
                        ELSE trackPos.tpcNSigmaKa
      NSigmaKaTPCNeg == IF computeTPCPostCalib THEN getTPCPostCalib(hMapPionMean, hMapPionSigma, trackNeg, kKa)
                        ELSE trackNeg.tpcNSigmaKa
      asD0 == /\ DzeroPidOk(NSigmaPiTPCPos, trackPos.tofNSigmaPi, trackPos.hasTOF, nsigmaTPCPionKaonDzero, nsigmaTOFPionKaonDzero)
              /\ DzeroPidOk(NSigmaKaTPCNeg, trackNeg.tofNSigmaKa, trackNeg.hasTOF, nsigmaTPCPionKaonDzero, nsigmaTOFPionKaonDzero)
      asD0bar == /\ DzeroPidOk(NSigmaPiTPCNeg, trackNeg.tofNSigmaPi, trackNeg.hasTOF, nsigmaTPCPionKaonDzero, nsigmaTOFPionKaonDzero)
                 /\ DzeroPidOk(NSigmaKaTPCPos, trackPos.tofNSigmaKa, trackPos.hasTOF, nsigmaTPCPionKaonDzero, nsigmaTOFPionKaonDzero)
  IN  IF asD0 THEN BIT(0) ELSE IF asD0bar THEN BIT(1) ELSE 0

isDzeroPreselected(trackPos, trackNeg, nsigmaTPCPionKaonDzero, nsigmaTOFPionKaonDzero, computeTPCPostCalib, hMapPionMean, hMapPionSigma) ==
  LET NSigmaPiTPCPos == IF computeTPCPostCalib THEN getTPCPostCalib(hMapPionMean, hMapPionSigma, trackPos, kPi)
                        ELSE trackPos.tpcNSigmaPi
      NSigmaPiTPCNeg == IF computeTPCPostCalib THEN getTPCPostCalib(hMapPionMean, hMapPionSigma, trackNeg, kPi)
                        ELSE trackNeg.tpcNSigmaPi
      NSigmaKaTPCPos == IF computeTPCPostCalib THEN getTPCPostCalib(hMapPionMean, hMapPionSigma, trackPos, kKa)
                        ELSE trackPos.tpcNSigmaKa
      NSigmaKaTPCNeg == IF computeTPCPostCalib THEN getTPCPostCalib(hMapPionMean, hMapPionSigma, trackNeg, kKa)
                        ELSE trackNeg.tpcNSigmaKa
  IN  (IF /\ DzeroPidOk(NSigmaPiTPCPos, trackPos.tofNSigmaPi, trackPos.hasTOF, nsigmaTPCPionKaonDzero, nsigmaTOFPionKaonDzero)
          /\ DzeroPidOk(NSigmaKaTPCNeg, trackNeg.tofNSigmaKa, trackNeg.hasTOF, nsigmaTPCPionKaonDzero, nsigmaTOFPionKaonDzero)
       THEN BIT(0) ELSE 0)
      + (IF /\ DzeroPidOk(NSigmaPiTPCNeg, trackNeg.tofNSigmaPi, trackNeg.hasTOF, nsigmaTPCPionKaonDzero, nsigmaTOFPionKaonDzero)
            /\ DzeroPidOk(NSigmaKaTPCPos, trackPos.tofNSigmaKa, trackPos.hasTOF, nsigmaTPCPionKaonDzero, nsigmaTOFPionKaonDzero)
         THEN BIT(1) ELSE 0)

\* the two-hypothesis mass window shared by the D0, Ds, Lc and Xic
\* selections: hypothesis i is tested only when bit i of isSelected is set
\* and passes when its mass is strictly within delta of the PDG mass
\* mutant: the second hypothesis is tested only when the first one failed
TwoHypothesisInMassRange_firstWins(invMass0, invMass1, massPDG, isSelected, deltaMassCharmHadronForBeauty) ==
  IF TESTBIT(isSelected, 0) /\ Abs(invMass0 - massPDG) < deltaMassCharmHadronForBeauty THEN BIT(0)
  ELSE IF TESTBIT(isSelected, 1) /\ Abs(invMass1 - massPDG) < deltaMassCharmHadronForBeauty THEN BIT(1)
  ELSE 0

TwoHypothesisInMassRange(invMass0, invMass1, massPDG, isSelected, deltaMassCharmHadronForBeauty) ==
  (IF TESTBIT(isSelected, 0) /\ Abs(invMass0 - massPDG) < deltaMassCharmHadronForBeauty THEN BIT(0) ELSE 0)
  + (IF TESTBIT(isSelected, 1) /\ Abs(invMass1 - massPDG) < deltaMassCharmHadronForBeauty THEN BIT(1) ELSE 0)

\* the hMassVsPt fills of a two-hypothesis selection, in order
TwoHypothesisFills(invMass0, invMass1, pt, isSelected, activateQA) ==
  (IF TESTBIT(isSelected, 0) /\ activateQA # 0 THEN << <<pt, invMass0>> >> ELSE <<>>)
  \o (IF TESTBIT(isSelected, 1) /\ activateQA # 0 THEN << <<pt, invMass1>> >> ELSE <<>>)

\* mutant: both hypotheses are tested whatever isSelected holds
isSelectedD0InMassRange_untested(pTrackPos, pTrackNeg, ptD, isSelected, deltaMassCharmHadronForBeauty) ==
  TwoHypothesisInMassRange(RecoDecayM(<<pTrackPos, pTrackNeg>>, <<massPi, massK>>),
                           RecoDecayM(<<pTrackPos, pTrackNeg>>, <<massK, massPi>>),
                           massD0, 3, deltaMassCharmHadronForBeauty)

isSelectedD0InMassRange(pTrackPos, pTrackNeg, ptD, isSelected, deltaMassCharmHadronForBeauty) ==
  TwoHypothesisInMassRange(RecoDecayM(<<pTrackPos, pTrackNeg>>, <<massPi, massK>>),
                           RecoDecayM(<<pTrackPos, pTrackNeg>>, <<massK, massPi>>),
                           massD0, isSelected, deltaMassCharmHadronForBeauty)

\* mutant: the first same-charge track is given the kaon mass
invMassDplus_kaonFirst(pTrackSameChargeFirst, pTrackSameChargeSecond, pTrackOppositeCharge) ==
  RecoDecayM(<<pTrackSameChargeFirst, pTrackSameChargeSecond, pTrackOppositeCharge>>, <<massK, massPi, massPi>>)

invMassDplus(pTrackSameChargeFirst, pTrackSameChargeSecond, pTrackOppositeCharge) ==
  RecoDecayM(<<pTrackSameChargeFirst, pTrackSameChargeSecond, pTrackOppositeCharge>>, <<massPi, massPi, massK>>)

\* mutant: a candidate on the edge of the window is rejected
isSelectedDplusInMassRange_edgeOut(pTrackSameChargeFirst, pTrackSameChargeSecond, pTrackOppositeCharge, ptD, deltaMassCharmHadronForBeauty) ==
  IF Abs(invMassDplus(pTrackSameChargeFirst, pTrackSameChargeSecond, pTrackOppositeCharge) - massDPlus)
       >= deltaMassCharmHadronForBeauty
  THEN 0
  ELSE BIT(0)

isSelectedDplusInMassRange(pTrackSameChargeFirst, pTrackSameChargeSecond, pTrackOppositeCharge, ptD, deltaMassCharmHadronForBeauty) ==
  IF Abs(invMassDplus(pTrackSameChargeFirst, pTrackSameChargeSecond, pTrackOppositeCharge) - massDPlus)
       > deltaMassCharmHadronForBeauty
  THEN 0
  ELSE BIT(0)

isSelectedDsInMassRange(pTrackSameChargeFirst, pTrackSameChargeSecond, pTrackOppositeCharge, ptD, isSelected, deltaMassCharmHadronForBeauty) ==
  TwoHypothesisInMassRange(
    RecoDecayM(<<pTrackSameChargeFirst, pTrackOppositeCharge, pTrackSameChargeSecond>>, <<massK, massK, massPi>>),
    RecoDecayM(<<pTrackSameChargeFirst, pTrackOppositeCharge, pTrackSameChargeSecond>>, <<massPi, massK, massK>>),
    massDs, isSelected, deltaMassCharmHadronForBeauty)

isSelectedLcInMassRange(pTrackSameChargeFirst, pTrackSameChargeSecond, pTrackOppositeCharge, ptLc, isSelected, deltaMassCharmHadronForBeauty) ==
  TwoHypothesisInMassRange(
    RecoDecayM(<<pTrackSameChargeFirst, pTrackOppositeCharge, pTrackSameChargeSecond>>, <<massProton, massK, massPi>>),
    RecoDecayM(<<pTrackSameChargeFirst, pTrackOppositeCharge, pTrackSameChargeSecond>>, <<massPi, massK, massProton>>),
    massLc, isSelected, deltaMassCharmHadronForBeauty)

isSelectedXicInMassRange(pTrackSameChargeFirst, pTrackSameChargeSecond, pTrackOppositeCharge, ptXic, isSelected, deltaMassCharmHadronForBeauty) ==
  TwoHypothesisInMassRange(
    RecoDecayM(<<pTrackSameChargeFirst, pTrackOppositeCharge, pTrackSameChargeSecond>>, <<massProton, massK, massPi>>),
    RecoDecayM(<<pTrackSameChargeFirst, pTrackOppositeCharge, pTrackSameChargeSecond>>, <<massPi, massK, massProton>>),
    massXic, isSelected, deltaMassCharmHadronForBeauty)

\* the hMassVsPt fill of the D+ selection: made before the window test
DplusMassFills(pTrackSameChargeFirst, pTrackSameChargeSecond, pTrackOppositeCharge, ptD, activateQA) ==
  IF activateQA # 0
  THEN << <<ptD, invMassDplus(pTrackSameChargeFirst, pTrackSameChargeSecond, pTrackOppositeCharge)>> >>
  ELSE <<>>

\* a track as the preselections read it; every track of a candidate sits in
\* the same calibration cell
MassTrack(tpcPi, tpcKa, tpcPr, tofPi, tofKa, tofPr, hasTOF) ==
  [tpcNClsFound |-> 110, tpcInnerParam |-> 2, eta |-> 5,
   tpcNSigmaPi |-> tpcPi, tpcNSigmaKa |-> tpcKa, tpcNSigmaPr |-> tpcPr,
   tofNSigmaPi |-> tofPi, tofNSigmaKa |-> tofKa, tofNSigmaPr |-> tofPr, hasTOF |-> hasTOF]

MassTPCVals == {-25, 40}

MassTOFVals == {0, 40}

\* the n-sigma cut of every species in the mass pipeline
MassPidCut == 30

\* the calibration map of the mass pipeline
MassCalibMap == 2

DeltaMassVals == {20, 40}

ActivateQAVals == {0, 1}

PtCandVals == {10, 30}

\* D0 candidates: << pTrackPos, pTrackNeg >>
D0Momenta ==
  { << <<1500, 100, -200>>, <<50, 1100, -400>> >>,
    << <<0, 600, -400>>, <<-700, -950, 200>> >>,
    << <<-850, -150, 800>>, <<-1450, 150, -800>> >>,
    << <<-700, -1150, 50>>, <<900, -100, 0>> >>,
    << <<1050, -50, -550>>, <<-450, 450, 300>> >>,
    << <<-1450, -150, 550>>, <<-300, 650, -600>> >> }

\* 3-prong candidates: << first same-charge, second same-charge, opposite >>
DplusMomenta ==
  { << <<-300, -100, 250>>, <<-750, -50, -350>>, <<300, 450, 300>> >>,
    << <<-750, -50, -350>>, <<-300, -100, 250>>, <<300, 450, 300>> >>,
    << <<50, 1100, 400>>, <<-50, 500, 200>>, <<400, -350, -1100>> >>,
    << <<-50, 500, 200>>, <<50, 1100, 400>>, <<400, -350, -1100>> >>,
    << <<500, 350, 50>>, <<1000, -150, -100>>, <<500, 150, -1100>> >>,
    << <<-150, -650, 900>>, <<750, -250, 850>>, <<-50, 300, 900>> >> }

DsMomenta ==
  { << <<50, 1150, 550>>, <<-550, 700, -300>>, <<-100, 900, 650>> >>,
    << <<50, -50, 300>>, <<-350, 100, -550>>, <<300, 50, 400>> >>,
    << <<-650, -200, 1100>>, <<850, -900, 400>>, <<-800, -400, 1150>> >>,
    << <<-950, 1050, 500>>, <<150, 700, -300>>, <<-100, 600, -100>> >>,
    << <<-400, -650, 700>>, <<-650, 550, 800>>, <<-650, 250, 700>> >>,
    << <<100, 250, 900>>, <<400, 500, 800>>, <<-250, 350, -150>> >>,
    << <<-1000, -1050, -850>>, <<-1250, -800, -800>>, <<-1100, -900, -550>> >>,
    << <<950, -650, -850>>, <<900, -1050, 250>>, <<750, -650, -650>> >>,
    << <<-700, 300, -600>>, <<100, 1150, -300>>, <<-550, 300, -300>> >>,
    << <<-500, 500, 1150>>, <<-400, 800, 50>>, <<-300, 500, -100>> >> }

CharmBaryonMomenta ==
  { << <<-900, -200, -850>>, <<-900, -900, -250>>, <<-200, -650, -500>> >>,
    << <<-950, 1100, -50>>, <<-350, 300, 750>>, <<-150, 600, -100>> >>,
    << <<-950, 0, 100>>, <<-250, 500, 550>>, <<-350, -150, 650>> >>,
    << <<-1000, 50, -1050>>, <<-450, -750, 300>>, <<-200, -500, -950>> >>,
    << <<-750, -700, -150>>, <<-350, -700, -350>>, <<-800, -200, 500>> >>,
    << <<350, -1000, 0>>, <<700, -350, -600>>, <<350, -50, -600>> >>,
    << <<-750, -900, -900>>, <<-1000, -850, -650>>, <<-500, 200, -1100>> >>,
    << <<-100, 200, 400>>, <<-650, -300, 0>>, <<0, 450, 950>> >>,
    << <<450, 950, -50>>, <<1000, 200, 850>>, <<200, 100, 700>> >>,
    << <<-1050, 200, 0>>, <<-1150, -200, -200>>, <<250, -150, 0>> >>,
    << <<800, 100, -350>>, <<200, 250, 950>>, <<300, 250, 300>> >> }

CallIsDzeroPreselected ==
  /\ Idle
  /\ \E mom \in D0Momenta, computeTPCPostCalib \in BOOLEAN, hasTOFPos \in BOOLEAN, hasTOFNeg \in BOOLEAN,
        tpcPiPos \in MassTPCVals, tpcKaPos \in MassTPCVals, tofPiPos \in MassTOFVals, tofKaPos \in MassTOFVals,
        tpcPiNeg \in MassTPCVals, tpcKaNeg \in MassTPCVals, tofPiNeg \in MassTOFVals, tofKaNeg \in MassTOFVals :
       LET trackPos == MassTrack(tpcPiPos, tpcKaPos, 0, tofPiPos, tofKaPos, 0, hasTOFPos)
           trackNeg == MassTrack(tpcPiNeg, tpcKaNeg, 0, tofPiNeg, tofKaNeg, 0, hasTOFNeg)
       IN  /\ call' = "isDzeroPreselected"
           /\ args' = [trackPos |-> trackPos, trackNeg |-> trackNeg,
                       pTrackPos |-> mom[1], pTrackNeg |-> mom[2],
                       computeTPCPostCalib |-> computeTPCPostCalib]
           /\ ret' = isDzeroPreselected(trackPos, trackNeg, MassPidCut, MassPidCut, computeTPCPostCalib,
                                        hCalibMeanOf(MassCalibMap), hCalibSigmaOf(MassCalibMap))
  /\ UNCHANGED <<fatal, taskVars>>

\* the mass selection of the candidate just preselected, handed the
\* preselection's bitmask
CallIsSelectedD0InMassRange ==
  /\ call = "isDzeroPreselected" /\ ~fatal
  /\ \E ptD \in PtCandVals, deltaMassCharmHadronForBeauty \in DeltaMassVals, activateQA \in ActivateQAVals :
       /\ call' = "isSelectedD0InMassRange"
       /\ args' = [cand |-> args, preselected |-> ret, ptD |-> ptD,
                   deltaMass |-> deltaMassCharmHadronForBeauty, activateQA |-> activateQA]
       /\ ret' = [retValue |-> isSelectedD0InMassRange(args.pTrackPos, args.pTrackNeg, ptD, ret,
                                                       deltaMassCharmHadronForBeauty),
                  fills |-> TwoHypothesisFills(
                              RecoDecayM(<<args.pTrackPos, args.pTrackNeg>>, <<massPi, massK>>),
                              RecoDecayM(<<args.pTrackPos, args.pTrackNeg>>, <<massK, massPi>>),
                              ptD, ret, activateQA)]
  /\ UNCHANGED <<fatal, taskVars>>

CallIsDplusPreselected ==
  /\ Idle
  /\ \E mom \in DplusMomenta, computeTPCPostCalib \in BOOLEAN, hasTOF \in BOOLEAN,
        tpcKa \in MassTPCVals, tofKa \in MassTOFVals :
       LET trackOppositeCharge == MassTrack(0, tpcKa, 0, 0, tofKa, 0, hasTOF)
       IN  /\ call' = "isDplusPreselected"
           /\ args' = [trackOppositeCharge |-> trackOppositeCharge,
                       pTrackSameChargeFirst |-> mom[1], pTrackSameChargeSecond |-> mom[2],
                       pTrackOppositeCharge |-> mom[3], computeTPCPostCalib |-> computeTPCPostCalib]
           /\ ret' = isDplusPreselected(trackOppositeCharge, MassPidCut, MassPidCut, computeTPCPostCalib,
                                        hCalibMeanOf(MassCalibMap), hCalibSigmaOf(MassCalibMap))
  /\ UNCHANGED <<fatal, taskVars>>

\* the D+ mass selection has no isSelected parameter
CallIsSelectedDplusInMassRange ==
  /\ call = "isDplusPreselected" /\ ~fatal
  /\ \E ptD \in PtCandVals, deltaMassCharmHadronForBeauty \in DeltaMassVals, activateQA \in ActivateQAVals :
       /\ call' = "isSelectedDplusInMassRange"
       /\ args' = [cand |-> args, preselected |-> ret, ptD |-> ptD,
                   deltaMass |-> deltaMassCharmHadronForBeauty, activateQA |-> activateQA]
       /\ ret' = [retValue |-> isSelectedDplusInMassRange(args.pTrackSameChargeFirst, args.pTrackSameChargeSecond,
                                                          args.pTrackOppositeCharge, ptD,
                                                          deltaMassCharmHadronForBeauty),
                  fills |-> DplusMassFills(args.pTrackSameChargeFirst, args.pTrackSameChargeSecond,
                                           args.pTrackOppositeCharge, ptD, activateQA)]
  /\ UNCHANGED <<fatal, taskVars>>

CallIsDsPreselected ==
  /\ Idle
  /\ \E mom \in DsMomenta, computeTPCPostCalib \in BOOLEAN, hasTOF \in BOOLEAN,
        tpcKa \in MassTPCVals, tofKa \in MassTOFVals :
       LET trackOppositeCharge == MassTrack(0, tpcKa, 0, 0, tofKa, 0, hasTOF)
       IN  /\ call' = "isDsPreselected"
           /\ args' = [trackOppositeCharge |-> trackOppositeCharge,
                       pTrackSameChargeFirst |-> mom[1], pTrackSameChargeSecond |-> mom[2],
                       pTrackOppositeCharge |-> mom[3], computeTPCPostCalib |-> computeTPCPostCalib]
           /\ ret' = isDsPreselected(mom[1], mom[2], mom[3], trackOppositeCharge, MassPidCut, MassPidCut,
                                     computeTPCPostCalib,
                                     hCalibMeanOf(MassCalibMap), hCalibSigmaOf(MassCalibMap))
  /\ UNCHANGED <<fatal, taskVars>>

CallIsSelectedDsInMassRange ==
  /\ call = "isDsPreselected" /\ ~fatal
  /\ \E ptD \in PtCandVals, deltaMassCharmHadronForBeauty \in DeltaMassVals, activateQA \in ActivateQAVals :
       LET pFirst == args.pTrackSameChargeFirst
           pSecond == args.pTrackSameChargeSecond
           pOpp == args.pTrackOppositeCharge
       IN  /\ call' = "isSelectedDsInMassRange"
           /\ args' = [cand |-> args, preselected |-> ret, ptD |-> ptD,
                       deltaMass |-> deltaMassCharmHadronForBeauty, activateQA |-> activateQA]
           /\ ret' = [retValue |-> isSelectedDsInMassRange(pFirst, pSecond, pOpp, ptD, ret,
                                                           deltaMassCharmHadronForBeauty),
                      fills |-> TwoHypothesisFills(
                                  RecoDecayM(<<pFirst, pOpp, pSecond>>, <<massK, massK, massPi>>),
                                  RecoDecayM(<<pFirst, pOpp, pSecond>>, <<massPi, massK, massK>>),
                                  ptD, ret, activateQA)]
  /\ UNCHANGED <<fatal, taskVars>>

CallIsCharmBaryonPreselected ==
  /\ Idle
  /\ \E mom \in CharmBaryonMomenta, computeTPCPostCalib \in BOOLEAN,
        hasTOFFirst \in BOOLEAN, hasTOFSecond \in BOOLEAN, hasTOFOpp \in BOOLEAN,
        tpcPrFirst \in MassTPCVals, tpcPrSecond \in MassTPCVals,
        tpcKa \in MassTPCVals, tofKa \in MassTOFVals :
       LET trackSameChargeFirst == MassTrack(0, 0, tpcPrFirst, 0, 0, 40, hasTOFFirst)
           trackSameChargeSecond == MassTrack(0, 0, tpcPrSecond, 0, 0, 40, hasTOFSecond)
           trackOppositeCharge == MassTrack(0, tpcKa, 0, 0, tofKa, 0, hasTOFOpp)
       IN  /\ call' = "isCharmBaryonPreselected"
           /\ args' = [trackSameChargeFirst |-> trackSameChargeFirst,
                       trackSameChargeSecond |-> trackSameChargeSecond,
                       trackOppositeCharge |-> trackOppositeCharge,
                       pTrackSameChargeFirst |-> mom[1], pTrackSameChargeSecond |-> mom[2],
                       pTrackOppositeCharge |-> mom[3], computeTPCPostCalib |-> computeTPCPostCalib]
           /\ ret' = isCharmBaryonPreselected(trackSameChargeFirst, trackSameChargeSecond, trackOppositeCharge,
                                              MassPidCut, MassPidCut, MassPidCut, MassPidCut, computeTPCPostCalib,
                                              hCalibMeanOf(MassCalibMap), hCalibSigmaOf(MassCalibMap),
                                              hCalibMeanOf(MassCalibMap), hCalibSigmaOf(MassCalibMap))
  /\ UNCHANGED <<fatal, taskVars>>

CallIsSelectedLcInMassRange ==
  /\ call = "isCharmBaryonPreselected" /\ ~fatal
  /\ \E ptLc \in PtCandVals, deltaMassCharmHadronForBeauty \in DeltaMassVals, activateQA \in ActivateQAVals :
       LET pFirst == args.pTrackSameChargeFirst
           pSecond == args.pTrackSameChargeSecond
           pOpp == args.pTrackOppositeCharge
       IN  /\ call' = "isSelectedLcInMassRange"
           /\ args' = [cand |-> args, preselected |-> ret, ptD |-> ptLc,
                       deltaMass |-> deltaMassCharmHadronForBeauty, activateQA |-> activateQA]
           /\ ret' = [retValue |-> isSelectedLcInMassRange(pFirst, pSecond, pOpp, ptLc, ret,
                                                           deltaMassCharmHadronForBeauty),
                      fills |-> TwoHypothesisFills(
                                  RecoDecayM(<<pFirst, pOpp, pSecond>>, <<massProton, massK, massPi>>),
                                  RecoDecayM(<<pFirst, pOpp, pSecond>>, <<massPi, massK, massProton>>),
                                  ptLc, ret, activateQA)]
  /\ UNCHANGED <<fatal, taskVars>>

CallIsSelectedXicInMassRange ==
  /\ call = "isCharmBaryonPreselected" /\ ~fatal
  /\ \E ptXic \in PtCandVals, deltaMassCharmHadronForBeauty \in DeltaMassVals, activateQA \in ActivateQAVals :
       LET pFirst == args.pTrackSameChargeFirst
           pSecond == args.pTrackSameChargeSecond
           pOpp == args.pTrackOppositeCharge
       IN  /\ call' = "isSelectedXicInMassRange"
           /\ args' = [cand |-> args, preselected |-> ret, ptD |-> ptXic,
                       deltaMass |-> deltaMassCharmHadronForBeauty, activateQA |-> activateQA]
           /\ ret' = [retValue |-> isSelectedXicInMassRange(pFirst, pSecond, pOpp, ptXic, ret,
                                                            deltaMassCharmHadronForBeauty),
                      fills |-> TwoHypothesisFills(
                                  RecoDecayM(<<pFirst, pOpp, pSecond>>, <<massProton, massK, massPi>>),
                                  RecoDecayM(<<pFirst, pOpp, pSecond>>, <<massPi, massK, massProton>>),
                                  ptXic, ret, activateQA)]
  /\ UNCHANGED <<fatal, taskVars>>

NextMass ==
  \/ CallIsDzeroPreselected
  \/ CallIsSelectedD0InMassRange
  \/ CallIsDplusPreselected
  \/ CallIsSelectedDplusInMassRange
  \/ CallIsDsPreselected
  \/ CallIsSelectedDsInMassRange
  \/ CallIsCharmBaryonPreselected
  \/ CallIsSelectedLcInMassRange
  \/ CallIsSelectedXicInMassRange

SpecMass == Init /\ [][NextMass]_vars

\* the calls of the five mass selections
MassRangeCalls ==
  {"isSelectedD0InMassRange", "isSelectedDplusInMassRange", "isSelectedDsInMassRange",
   "isSelectedLcInMassRange", "isSelectedXicInMassRange"}

\* every bit of a is a bit of b
BitsSubset(a, b) == \A i \in 0 .. 7 : TESTBIT(a, i) => TESTBIT(b, i)

\* C2 as stated: for each of D0, D+, Ds, Lc and Xic the bitmask the mass
\* selection returns is a subset of the bitmask of the preselection of the
\* same candidate.
C2_TaggedSubsetOfPreselected ==
  call \in MassRangeCalls => BitsSubset(ret.retValue, args.preselected)

\* C2 amended: the subset relation holds for D0, Ds, Lc and Xic, whose mass
\* selections test a hypothesis only when its bit of isSelected is set; the
\* D+ mass selection takes no preselection bitmask and returns BIT(0) exactly
\* when the pi pi K mass is not further than delta from the D+ mass, whatever
\* the preselection returned.
C2_TaggedSubsetExceptDplus ==
  /\ call \in MassRangeCalls \ {"isSelectedDplusInMassRange"} =>
       BitsSubset(ret.retValue, args.preselected)
  /\ call = "isSelectedDplusInMassRange" =>
       ret.retValue =
         (IF Abs(invMassDplus(args.cand.pTrackSameChargeFirst, args.cand.pTrackSameChargeSecond,
                              args.cand.pTrackOppositeCharge) - massDPlus) <= args.deltaMass
          THEN 1 ELSE 0)

\* a D0 candidate with both masses in the window and only the D0 hypothesis
\* preselected is tagged D0 only
C2_Witness ==
  /\ call = "isSelectedD0InMassRange"
  /\ args.cand.pTrackPos = <<1500, 100, -200>>
  /\ args.deltaMass = 40
  /\ args.preselected = 1
  /\ ret.retValue = 1

\* the TPC deviation of a species as a preselection of the mass pipeline
\* compares it: post-calibrated when the flag is set, raw otherwise
MassComparedTPC(track, pidSpecies, computeTPCPostCalib) ==
  IF computeTPCPostCalib
  THEN getTPCPostCalib(hCalibMeanOf(MassCalibMap), hCalibSigmaOf(MassCalibMap), track, pidSpecies)
  ELSE PostCalibRawNSigma(track, pidSpecies)

\* the stored TOF deviation of a species
MassTOFOf(track, pidSpecies) ==
  IF pidSpecies = kKa THEN track.tofNSigmaKa
  ELSE IF pidSpecies = kPi THEN track.tofNSigmaPi
  ELSE track.tofNSigmaPr

\* a track passes as a species: TPC within the cut and, with TOF, TOF
\* within the cut
PassesAs(track, pidSpecies, computeTPCPostCalib) ==
  /\ Abs(MassComparedTPC(track, pidSpecies, computeTPCPostCalib)) <= MassPidCut
  /\ (track.hasTOF => Abs(MassTOFOf(track, pidSpecies)) <= MassPidCut)

\* C11: isDzeroPreselected sets bit 0 iff the positive track passes as pion
\* and the negative one as kaon, bit 1 iff the negative track passes as pion
\* and the positive one as kaon, each independently of the other; the result
\* is in {0, 1, 2, 3}.
C11_DzeroBits ==
  call = "isDzeroPreselected" =>
    /\ ret \in 0 .. 3
    /\ TESTBIT(ret, 0) <=> (/\ PassesAs(args.trackPos, kPi, args.computeTPCPostCalib)
                            /\ PassesAs(args.trackNeg, kKa, args.computeTPCPostCalib))
    /\ TESTBIT(ret, 1) <=> (/\ PassesAs(args.trackNeg, kPi, args.computeTPCPostCalib)
                            /\ PassesAs(args.trackPos, kKa, args.computeTPCPostCalib))

\* a pair with TOF on the negative track only, accepted under both
\* hypotheses
C11_Witness ==
  /\ call = "isDzeroPreselected"
  /\ ~args.trackPos.hasTOF /\ args.trackNeg.hasTOF
  /\ args.trackNeg.tofNSigmaKa = 0 /\ args.trackNeg.tofNSigmaPi = 0
  /\ ret = 3

\* the K K invariant mass of a same-charge track paired with the
\* opposite-charge track
InvMassKK(pSameCharge, pOpposite) == RecoDecayM(<<pSameCharge, pOpposite>>, <<massK, massK>>)

\* C12: isDsPreselected returns 0 when the opposite-charge track fails the
\* kaon test; otherwise bit 0 is set iff the K K mass of (first, opposite)
\* is less than 0.02 GeV from the phi mass and bit 1 iff the K K mass of
\* (second, opposite) is, each independently; no other bit is set.
C12_DsBits ==
  call = "isDsPreselected" =>
    IF ~PassesAs(args.trackOppositeCharge, kKa, args.computeTPCPostCalib)
    THEN ret = 0
    ELSE /\ ret \in 0 .. 3
         /\ TESTBIT(ret, 0) <=>
              Abs(InvMassKK(args.pTrackSameChargeFirst, args.pTrackOppositeCharge) - massPhi) < 20
         /\ TESTBIT(ret, 1) <=>
              Abs(InvMassKK(args.pTrackSameChargeSecond, args.pTrackOppositeCharge) - massPhi) < 20

\* a candidate whose second pair only is at the phi mass, kaon accepted
C12_Witness ==
  /\ call = "isDsPreselected"
  /\ PassesAs(args.trackOppositeCharge, kKa, args.computeTPCPostCalib)
  /\ Abs(InvMassKK(args.pTrackSameChargeFirst, args.pTrackOppositeCharge) - massPhi) > 20
  /\ ret = 2

\* isDsPreselected on the tracks and cuts of the current call, with other
\* momenta
DsPreselectedWith(mom) ==
  isDsPreselected(mom[1], mom[2], mom[3], args.trackOppositeCharge, MassPidCut, MassPidCut,
                  args.computeTPCPostCalib, hCalibMeanOf(MassCalibMap), hCalibSigmaOf(MassCalibMap))

\* which of the two K K pairs of a Ds candidate is less than 0.02 GeV from
\* the phi mass
DsPhiPattern(mom) ==
  << Abs(InvMassKK(mom[1], mom[3]) - massPhi) < 20, Abs(InvMassKK(mom[2], mom[3]) - massPhi) < 20 >>

\* the bitmask of the preselections that read PID alone
PidOnlyBits(call_, a) ==
  IF call_ = "isDplusPreselected"
  THEN (IF PassesAs(a.trackOppositeCharge, kKa, a.computeTPCPostCalib) THEN 1 ELSE 0)
  ELSE IF call_ = "isCharmBaryonPreselected"
  THEN (IF ~PassesAs(a.trackOppositeCharge, kKa, a.computeTPCPostCalib) THEN 0
        ELSE (IF PassesAs(a.trackSameChargeFirst, kPr, a.computeTPCPostCalib) THEN 1 ELSE 0)
             + (IF PassesAs(a.trackSameChargeSecond, kPr, a.computeTPCPostCalib) THEN 2 ELSE 0))
  ELSE (IF PassesAs(a.trackPos, kPi, a.computeTPCPostCalib) /\ PassesAs(a.trackNeg, kKa, a.computeTPCPostCalib)
        THEN 1 ELSE 0)
       + (IF PassesAs(a.trackNeg, kPi, a.computeTPCPostCalib) /\ PassesAs(a.trackPos, kKa, a.computeTPCPostCalib)
          THEN 2 ELSE 0)

PidOnlyPreselections == {"isDplusPreselected", "isCharmBaryonPreselected", "isDzeroPreselected"}

TwoHypothesisCalls ==
  {"isSelectedD0InMassRange", "isSelectedDsInMassRange", "isSelectedLcInMassRange", "isSelectedXicInMassRange"}

\* the mass assignments of hypothesis 0 and hypothesis 1 of a channel, in
\* the order the channel lists its prongs
HypothesisMasses(call_) ==
  IF call_ = "isSelectedD0InMassRange" THEN << <<massPi, massK>>, <<massK, massPi>> >>
  ELSE IF call_ = "isSelectedDsInMassRange" THEN << <<massK, massK, massPi>>, <<massPi, massK, massK>> >>
  ELSE << <<massProton, massK, massPi>>, <<massPi, massK, massProton>> >>

\* the prong momenta of a candidate in the order the channel lists them
ProngMomenta(call_, cand) ==
  IF call_ = "isSelectedD0InMassRange" THEN <<cand.pTrackPos, cand.pTrackNeg>>
  ELSE <<cand.pTrackSameChargeFirst, cand.pTrackOppositeCharge, cand.pTrackSameChargeSecond>>

ChannelMass(call_) ==
  IF call_ = "isSelectedD0InMassRange" THEN massD0
  ELSE IF call_ = "isSelectedDsInMassRange" THEN massDs
  ELSE IF call_ = "isSelectedLcInMassRange" THEN massLc
  ELSE massXic

\* |mass under hypothesis i - PDG mass| of the candidate of the current call
HypothesisDeltaMass(i) ==
  Abs(RecoDecayM(ProngMomenta(call, args.cand), HypothesisMasses(call)[i + 1]) - ChannelMass(call))

\* C14: for D0, Ds, Lc and Xic, output bit i (i = 0, 1) is set iff input
\* bit i is set and the mass under hypothesis i is less than delta from the
\* PDG mass of the channel; the two bits are decided independently and no
\* other bit is set.
C14_HypothesesIndependent ==
  call \in TwoHypothesisCalls =>
    /\ ret.retValue \in 0 .. 3
    /\ \A i \in {0, 1} :
         TESTBIT(ret.retValue, i) <=>
           (TESTBIT(args.preselected, i) /\ HypothesisDeltaMass(i) < args.deltaMass)

\* a Lc candidate proposed and in window under both hypotheses
C14_Witness ==
  /\ call = "isSelectedLcInMassRange"
  /\ args.preselected = 3
  /\ HypothesisDeltaMass(0) < args.deltaMass /\ HypothesisDeltaMass(1) < args.deltaMass
  /\ ret.retValue = 3

(***************************************************************************)
(* isSelectedGamma.  eta in tenths, v0radius in cm, alpha, psipair and the *)
(* cosine of the pointing angle in hundredths, qtarm in thousandths.       *)
(***************************************************************************)
\* (alpha / 0.95)^2 + (qtarm / 0.05)^2 >= 1, cleared of its denominators
OutsideArmenteros(alpha, qtarm) ==
  alpha * alpha * 50 * 50 + qtarm * qtarm * 95 * 95 >= 95 * 95 * 50 * 50

\* mutant: the radius cut is tested before the eta cut
GammaFailingCut_radiusFirst(gamma, gammaCosinePA) ==
  IF gamma.v0radius < 0 \/ gamma.v0radius > 180 THEN 2
  ELSE IF Abs(gamma.eta) > 8 THEN 1
  ELSE IF OutsideArmenteros(gamma.alpha, gamma.qtarm) THEN 3
  ELSE IF Abs(gamma.psipair) > 10 THEN 4
  ELSE IF gammaCosinePA < 85 THEN 5
  ELSE 6

\* the number of the cut that rejects the candidate, 6 when none does
GammaFailingCut(gamma, gammaCosinePA) ==
  IF Abs(gamma.eta) > 8 THEN 1
  ELSE IF gamma.v0radius < 0 \/ gamma.v0radius > 180 THEN 2
  ELSE IF OutsideArmenteros(gamma.alpha, gamma.qtarm) THEN 3
  ELSE IF Abs(gamma.psipair) > 10 THEN 4
  ELSE IF gammaCosinePA < 85 THEN 5
  ELSE 6

\* the fills of one call, in order
GammaFills(gamma, failingCut, activateQA) ==
  IF activateQA > 1
  THEN << [hist |-> "hGammaSelected", x |-> <<0>>],
          [hist |-> "hGammaEtaBefore", x |-> <<gamma.eta>>],
          [hist |-> "hGammaArmPodBefore", x |-> <<gamma.alpha, gamma.qtarm>>],
          [hist |-> "hGammaSelected", x |-> <<failingCut>>] >>
       \o (IF failingCut = 6
           THEN << [hist |-> "hGammaEtaAfter", x |-> <<gamma.eta>>],
                   [hist |-> "hGammaArmPodAfter", x |-> <<gamma.alpha, gamma.qtarm>>] >>
           ELSE <<>>)
  ELSE <<>>

isSelectedGamma(gamma, gammaCosinePA, activateQA) ==
  LET failingCut == GammaFailingCut(gamma, gammaCosinePA)
  IN  [selected |-> failingCut = 6, fills |-> GammaFills(gamma, failingCut, activateQA)]

GammaEtaVals == {-9, 0, 8}

GammaRadiusVals == {-1, 0, 180, 181}

GammaAlphaVals == {-95, 0, 50}

GammaQtVals == {0, 40, 50}

GammaPsiPairVals == {-11, 0, 10}

GammaCosPAVals == {84, 85, 99}

CallIsSelectedGamma ==
  /\ Idle
  /\ \E eta \in GammaEtaVals, v0radius \in GammaRadiusVals, alpha \in GammaAlphaVals, qtarm \in GammaQtVals,
        psipair \in GammaPsiPairVals, gammaCosinePA \in GammaCosPAVals, activateQA \in 0 .. 2 :
       LET gamma == [eta |-> eta, v0radius |-> v0radius, alpha |-> alpha, qtarm |-> qtarm, psipair |-> psipair]
       IN  /\ call' = "isSelectedGamma"
           /\ args' = [gamma |-> gamma, gammaCosinePA |-> gammaCosinePA, activateQA |-> activateQA]
           /\ ret' = isSelectedGamma(gamma, gammaCosinePA, activateQA)
  /\ UNCHANGED <<fatal, taskVars>>

NextV0 == CallIsSelectedGamma

SpecV0 == Init /\ [][NextV0]_vars

(***************************************************************************)
(* skimmerGamma::processRec.  Cluster time in ns, M02 in tenths.           *)
(***************************************************************************)
\* the configurables of the two cuts, at their default values
minTime == -200

maxTime == 200

minM02 == 0

maxM02 == 10

\* most clusters the loop goes through
MaxClusters == 3

ClusterTimeVals == {-201, -200, 200, 201}

ClusterM02Vals == {-1, 0, 10, 11}

\* mutant: the M02 cut is tested before the time cut
ClusterFilterBin_m02First(calocluster) ==
  IF calocluster.m02 > maxM02 \/ calocluster.m02 < minM02 THEN 2
  ELSE IF calocluster.time > maxTime \/ calocluster.time < minTime THEN 1
  ELSE 3

\* the bin of hCaloClusterFilter filled after bin 0 for a cluster: 1 "time
\* cut", 2 "M02 cut", 3 "out"
ClusterFilterBin(calocluster) ==
  IF calocluster.time > maxTime \/ calocluster.time < minTime THEN 1
  ELSE IF calocluster.m02 > maxM02 \/ calocluster.m02 < minM02 THEN 2
  ELSE 3

\* one iteration of the loop of processRec
ProcessRecCluster ==
  /\ Len(caloclusters) < MaxClusters
  /\ \E time \in ClusterTimeVals, m02 \in ClusterM02Vals :
       LET calocluster == [time |-> time, m02 |-> m02, globalIndex |-> Len(caloclusters)]
           bin == ClusterFilterBin(calocluster)
       IN  /\ caloclusters' = Append(caloclusters, calocluster)
           /\ hCaloClusterEIn' = hCaloClusterEIn + 1
           /\ hCaloClusterFilter' = [hCaloClusterFilter EXCEPT ![0] = @ + 1, ![bin] = @ + 1]
           /\ hCaloClusterEOut' = IF bin = 3 THEN hCaloClusterEOut + 1 ELSE hCaloClusterEOut
           /\ tableGammaReco' = IF bin = 3
                                THEN Append(tableGammaReco, [id |-> 1, globalIndex |-> calocluster.globalIndex])
                                ELSE tableGammaReco
  /\ UNCHANGED <<helperVars, fatal, dalitzVars>>

NextSkim == ProcessRecCluster

SpecSkim == Init /\ [][NextSkim]_vars

(***************************************************************************)
(* computeRelativeMomentum.  Momenta, energies and masses in MeV; the      *)
(* boost vector, gamma and the boost matrix in thousandths.  A quotient    *)
(* is rounded towards zero, so that changing the sign of a component       *)
(* changes the sign of what is computed from it, as in floating point.     *)
(***************************************************************************)
\* fixed-point quotient, rounded towards zero (den > 0)
TDiv(num, den) == IF num >= 0 THEN num \div den ELSE -((-num) \div den)

\* one in the fixed-point scale of the boost
BoostOne == 1000

\* ROOT::Math::PxPyPzMVector(px, py, pz, m): the four-vector <<px, py, pz, E>>
PxPyPzMVector(p, mass) ==
  <<p[1], p[2], p[3], ISqrt(p[1] * p[1] + p[2] * p[2] + p[3] * p[3] + mass * mass)>>

LorentzAdd(v, w) == [i \in 1 .. 4 |-> v[i] + w[i]]

LorentzSub(v, w) == [i \in 1 .. 4 |-> v[i] - w[i]]

\* mutant: the boost is taken along z only
BoostToCM_alongZ(v) ==
  <<0, 0, TDiv(-v[3] * BoostOne, v[4])>>

\* LorentzVector::BoostToCM: the velocity -p / E
BoostToCM(v) ==
  [j \in 1 .. 3 |-> TDiv(-v[j] * BoostOne, v[4])]

\* ROOT::Math::Boost::SetComponents: the symmetric 4 x 4 matrix of the boost
\* of velocity b
BoostMatrix(b) ==
  LET bp2 == TDiv(b[1] * b[1] + b[2] * b[2] + b[3] * b[3], BoostOne)
      gamma == TDiv(BoostOne * BoostOne, ISqrt((BoostOne - bp2) * BoostOne))
      bgamma == TDiv(gamma * gamma, BoostOne + gamma)
  IN  [i \in 1 .. 4 |-> [j \in 1 .. 4 |->
        IF i = 4 /\ j = 4 THEN gamma
        ELSE IF i = 4 THEN TDiv(gamma * b[j], BoostOne)
        ELSE IF j = 4 THEN TDiv(gamma * b[i], BoostOne)
        ELSE (IF i = j THEN BoostOne ELSE 0)
             + TDiv(TDiv(bgamma * b[i], BoostOne) * b[j], BoostOne)]]

\* Boost::operator(): the matrix applied to a four-vector
BoostApply(mat, v) ==
  [i \in 1 .. 4 |->
     TDiv(mat[i][1] * v[1] + mat[i][2] * v[2] + mat[i][3] * v[3] + mat[i][4] * v[4], BoostOne)]

\* LorentzVector::P(): the magnitude of the three-momentum
LorentzP(v) == ISqrt(v[1] * v[1] + v[2] * v[2] + v[3] * v[3])

computeRelativeMomentum(trackP, CharmCandMomentum, CharmMass) ==
  LET part1 == PxPyPzMVector(trackP, massProton)
      part2 == PxPyPzMVector(CharmCandMomentum, CharmMass)
      trackSum == LorentzAdd(part1, part2)
      boostv12 == BoostMatrix(BoostToCM(trackSum))
      part1CM == BoostApply(boostv12, part1)
      part2CM == BoostApply(boostv12, part2)
      trackRelK == LorentzSub(part1CM, part2CM)
  IN  LorentzP(trackRelK) \div 2

\* the rotations that map the coordinate axes onto one another: component i
\* of the rotated vector is sign[i] times component perm[i], determinant +1
AxisPermutations ==
  {<<1, 2, 3>>, <<2, 3, 1>>, <<3, 1, 2>>, <<2, 1, 3>>, <<1, 3, 2>>, <<3, 2, 1>>}

PermutationSign(perm) == IF perm \in {<<1, 2, 3>>, <<2, 3, 1>>, <<3, 1, 2>>} THEN 1 ELSE -1

Rotations ==
  {r \in [perm : AxisPermutations, sign : [1 .. 3 -> {-1, 1}]] :
     PermutationSign(r.perm) * r.sign[1] * r.sign[2] * r.sign[3] = 1}

Rotate(r, p) == [i \in 1 .. 3 |-> r.sign[i] * p[r.perm[i]]]

\* momenta of the femto track
TrackMomenta == {<<300, -200, 500>>, <<-150, 650, 100>>, <<0, 0, 400>>}

\* momenta of the charm candidate
CharmMomenta == {<<1200, 400, -300>>, <<-250, 100, 900>>, <<0, 0, 400>>}

CharmMasses == {massD0, massDPlus, massLc}

CallComputeRelativeMomentum ==
  /\ Idle
  /\ \E p \in TrackMomenta, q \in CharmMomenta, CharmMass \in CharmMasses, r \in Rotations :
       /\ call' = "computeRelativeMomentum"
       /\ args' = [trackP |-> Rotate(r, p), CharmCandMomentum |-> Rotate(r, q), CharmMass |-> CharmMass]
       /\ ret' = computeRelativeMomentum(Rotate(r, p), Rotate(r, q), CharmMass)
  /\ UNCHANGED <<fatal, taskVars>>

NextKin == CallComputeRelativeMomentum

SpecKin == Init /\ [][NextKin]_vars


(***************************************************************************)
(* dalitzPairing (DalitzSelection.cxx)                                     *)
(***************************************************************************)
\* mutant: the shift count is taken modulo 8
Shift8_wrapped(i) == BIT(i % 8)

\* uint8_t(1) << i, stored into a uint8_t: bits above the seventh are lost
Shift8(i) == BIT(i) % 256

\* a & b and a | b on uint8_t values
RECURSIVE BitAndTo(_, _, _)
BitAndTo(a, b, i) ==
  IF i < 0 THEN 0
  ELSE (IF TESTBIT(a, i) /\ TESTBIT(b, i) THEN BIT(i) ELSE 0) + BitAndTo(a, b, i - 1)

BitAnd8(a, b) == BitAndTo(a, b, 7)

RECURSIVE BitOrTo(_, _, _)
BitOrTo(a, b, i) ==
  IF i < 0 THEN 0
  ELSE (IF TESTBIT(a, i) \/ TESTBIT(b, i) THEN BIT(i) ELSE 0) + BitOrTo(a, b, i - 1)

BitOr8(a, b) == BitOrTo(a, b, 7)

\* mutant: clear() leaves the map as it is
MapClear_kept(map) == map

\* std::map::clear()
MapClear(map) == <<>>

\* std::map: the value stored under a key, 0 for a key not in the map
MapAt(map, key) == IF key \in DOMAIN map THEN map[key] ELSE 0

\* std::map::operator[] used to read: a missing key is inserted with 0
MapTouch(map, key) == IF key \in DOMAIN map THEN map ELSE [k \in DOMAIN map \cup {key} |-> MapAt(map, k)]

\* std::map::operator[] used to assign
MapSet(map, key, value) == [k \in DOMAIN map \cup {key} |-> IF k = key THEN value ELSE map[k]]

\* numbers of configured track cuts and pair cuts; a list of nine cuts has
\* a cut of index 8, beyond the eight bits of the maps
CutCounts == {0, 1, 2, 9}

\* the cut indices 0 .. n - 1 of a list of n cuts
CutList(n) == [i \in 1 .. n |-> i - 1]

\* global indices of the tracks and collisions of a data frame
TrackIds == 1 .. 3

CollisionIds == 1 .. 2

\* the cuts of a list of nCuts cuts whose decision varies from track to
\* track or pair to pair; the other cuts of a list of nine select nothing
VariedCuts(nCuts) == IF nCuts > 8 THEN {0, nCuts - 1} ELSE {i \in {0, 1} : i < nCuts}

\* the sets of cuts a track or a pair can pass
PassSets(nCuts) == {S \in SUBSET {0, 1, 8} : S \subseteq VariedCuts(nCuts)}

\* what the barrel filter and the track cuts decide on a track: FilteredOut
\* when the filter drops it, else the set of track cuts it passes
FilteredOut == {-1}

TrackOutcomes(nCuts) == {FilteredOut} \cup PassSets(nCuts)

TrackPairs == {<<1, 2>>, <<1, 3>>, <<2, 3>>}

\* the data frames: tracks 1 and 2 belong to collision 1, track 3 to
\* collision 1, to collision 2 or to none.  trackPass and pairPass are what
\* the cuts decide when they are evaluated; a track the barrel filter drops
\* is one that would pass every cut
Frames(nTrackCuts, nPairCuts) ==
  { [trackCollision |-> <<1, 1, c3>>,
     sign |-> <<1, s2, -1>>,
     filtered |-> [t \in TrackIds |-> o[t] # FilteredOut],
     trackPass |-> [t \in TrackIds |-> IF o[t] = FilteredOut THEN VariedCuts(nTrackCuts) ELSE o[t]],
     pairPass |-> [pair \in TrackPairs |-> IF pair = <<1, 2>> THEN pp ELSE pp3],
     eventSel |-> <<e1, e2>>] :
      c3 \in {0, 1, 2}, s2 \in {-1, 1},
      o \in {x \in [TrackIds -> TrackOutcomes(nTrackCuts)] : x[3] \in {FilteredOut, {}, {0}}},
      pp \in PassSets(nPairCuts), pp3 \in {S \in PassSets(nPairCuts) : S \subseteq {0}},
      e1 \in BOOLEAN, e2 \in BOOLEAN }

\* mutant: the filtered tracks are not grouped by collision
GroupedFilteredTracks_ungrouped(fr, collision) ==
  SelectSeq([t \in TrackIds |-> t], LAMBDA t : fr.filtered[t])

\* filteredTracks.sliceBy(perCollision, collision.globalIndex()): the
\* tracks of the collision that pass the barrel filter, in table order
GroupedFilteredTracks(fr, collision) ==
  SelectSeq([t \in TrackIds |-> t], LAMBDA t : fr.trackCollision[t] = collision /\ fr.filtered[t])

\* the filter map runTrackSelection builds for one track
RECURSIVE TrackFilterMap(_, _, _, _)
TrackFilterMap(fr, track, trackCuts, n) ==
  IF n = 0 THEN 0
  ELSE BitOr8(TrackFilterMap(fr, track, trackCuts, n - 1),
              IF trackCuts[n] \in fr.trackPass[track] THEN Shift8(n - 1) ELSE 0)

\* mutant: a track passing no cut is stored as well
RECURSIVE runTrackSelection_storeAll(_, _, _, _, _)
runTrackSelection_storeAll(trackmap, fr, tracksBarrel, trackCuts, n) ==
  IF n = 0 THEN trackmap
  ELSE LET before == runTrackSelection_storeAll(trackmap, fr, tracksBarrel, trackCuts, n - 1)
           filterMap == TrackFilterMap(fr, tracksBarrel[n], trackCuts, Len(trackCuts))
       IN  MapSet(before, tracksBarrel[n], filterMap)

\* runTrackSelection over the first n tracks of tracksBarrel
RECURSIVE runTrackSelection(_, _, _, _, _)
runTrackSelection(trackmap, fr, tracksBarrel, trackCuts, n) ==
  IF n = 0 THEN trackmap
  ELSE LET before == runTrackSelection(trackmap, fr, tracksBarrel, trackCuts, n - 1)
           filterMap == TrackFilterMap(fr, tracksBarrel[n], trackCuts, Len(trackCuts))
       IN  IF filterMap # 0 THEN MapSet(before, tracksBarrel[n], filterMap) ELSE before

\* combinations(CombinationsStrictlyUpperIndexPolicy(tracks, tracks)): the
\* pairs of positions i < j, in lexicographic order
RECURSIVE UpperPairsFrom(_, _, _)
UpperPairsFrom(tracks, i, j) ==
  IF i >= Len(tracks) THEN <<>>
  ELSE IF j > Len(tracks) THEN UpperPairsFrom(tracks, i + 1, i + 2)
  ELSE << <<tracks[i], tracks[j]>> >> \o UpperPairsFrom(tracks, i, j + 1)

UpperPairs(tracks) == UpperPairsFrom(tracks, 1, 2)

\* the bits the loop over the pair cuts ORs into fDalitzmap for one pair
RECURSIVE PairSelectionBits(_, _, _, _, _)
PairSelectionBits(fr, pair, twoTracksFilterMap, pairCuts, n) ==
  IF n = 0 THEN 0
  ELSE BitOr8(PairSelectionBits(fr, pair, twoTracksFilterMap, pairCuts, n - 1),
              IF BitAnd8(twoTracksFilterMap, Shift8(n - 1)) # 0 /\ pairCuts[n] \in fr.pairPass[pair]
              THEN Shift8(n - 1) ELSE 0)

\* whether some pair cut of the loop selects the pair
PairSelected(fr, pair, twoTracksFilterMap, pairCuts) ==
  \E n \in 1 .. Len(pairCuts) :
    BitAnd8(twoTracksFilterMap, Shift8(n - 1)) # 0 /\ pairCuts[n] \in fr.pairPass[pair]

\* mutant: no pair is skipped for its signs
SameSignPair_never(fr, pair) == FALSE

\* track1.sign() * track2.sign() > 0
SameSignPair(fr, pair) == fr.sign[pair[1]] * fr.sign[pair[2]] > 0

\* the body of the pair loop of runDalitzPairing on the two maps
PairStep(maps, fr, pair, pairCuts) ==
  IF SameSignPair(fr, pair) THEN maps
  ELSE LET touched == MapTouch(MapTouch(maps.trackmap, pair[1]), pair[2])
           twoTracksFilterMap == BitAnd8(touched[pair[1]], touched[pair[2]])
           bits == PairSelectionBits(fr, pair, twoTracksFilterMap, pairCuts, Len(pairCuts))
       IN  IF twoTracksFilterMap = 0 \/ ~PairSelected(fr, pair, twoTracksFilterMap, pairCuts)
           THEN [maps EXCEPT !.trackmap = touched]
           ELSE [trackmap |-> touched,
                 dalitzmap |->
                   LET first == MapSet(maps.dalitzmap, pair[1], BitOr8(MapAt(maps.dalitzmap, pair[1]), bits))
                   IN  MapSet(first, pair[2], BitOr8(MapAt(first, pair[2]), bits))]

RECURSIVE PairLoop(_, _, _, _, _)
PairLoop(maps, fr, pairs, pairCuts, n) ==
  IF n = 0 THEN maps
  ELSE PairStep(PairLoop(maps, fr, pairs, pairCuts, n - 1), fr, pairs[n], pairCuts)

\* the QA loop reads fDalitzmap[track.globalIndex()] for every track
RECURSIVE TouchAll(_, _, _)
TouchAll(map, tracks, n) ==
  IF n = 0 THEN map ELSE MapTouch(TouchAll(map, tracks, n - 1), tracks[n])

\* runDalitzPairing(tracks, tracks) on the two maps
runDalitzPairing(maps, fr, tracks, pairCuts, qa) ==
  LET paired == PairLoop(maps, fr, UpperPairs(tracks), pairCuts, Len(UpperPairs(tracks)))
  IN  IF qa THEN [paired EXCEPT !.dalitzmap = TouchAll(paired.dalitzmap, tracks, Len(tracks))]
      ELSE paired

\* mutant: only a shorter list of track cuts is an error
CutListsMismatch_fewerTrackCuts(trackCuts, pairCuts) == Len(trackCuts) < Len(pairCuts)

\* fTrackCuts.size() != fPairCuts.size()
CutListsMismatch(trackCuts, pairCuts) == Len(trackCuts) # Len(pairCuts)

\* init(): the cut lists are built from the two configurables; different
\* lengths end the run
DalitzInit ==
  /\ pc = "constructed" /\ ~fatal
  /\ \E nTrackCuts \in CutCounts, nPairCuts \in CutCounts, qa \in BOOLEAN :
       /\ fTrackCuts' = CutList(nTrackCuts)
       /\ fPairCuts' = CutList(nPairCuts)
       /\ fQA' = qa
       /\ IF CutListsMismatch(CutList(nTrackCuts), CutList(nPairCuts))
          THEN fatal' = TRUE /\ pc' = "aborted"
          ELSE fatal' = FALSE /\ pc' = "ready"
  /\ UNCHANGED <<helperVars, skimVars, fTrackmap, fDalitzmap, frame, iCollision, isEventSelected, dalitzbits>>

\* processFullTracks is entered with the tables of a data frame
ProcessFullTracksBegin ==
  /\ pc = "ready" /\ ~fatal
  /\ \E fr \in Frames(Len(fTrackCuts), Len(fPairCuts)) : frame' = fr
  /\ fDalitzmap' = MapClear(fDalitzmap)
  /\ iCollision' = 1
  /\ dalitzbits' = <<>>
  /\ pc' = "loop"
  /\ UNCHANGED <<helperVars, skimVars, fatal, fTrackCuts, fPairCuts, fQA, fTrackmap, isEventSelected>>

\* the head of the loop body: fTrackmap.clear() and the event cut
CollisionBegin ==
  /\ pc = "loop" /\ iCollision \in CollisionIds
  /\ fTrackmap' = MapClear(fTrackmap)
  /\ isEventSelected' = frame.eventSel[iCollision]
  /\ pc' = "collision"
  /\ UNCHANGED <<helperVars, skimVars, fatal, fTrackCuts, fPairCuts, fQA, fDalitzmap, frame, iCollision, dalitzbits>>

\* the rest of the loop body: track selection and pairing of a selected
\* collision
CollisionRun ==
  /\ pc = "collision"
  /\ LET tracks == GroupedFilteredTracks(frame, iCollision)
         selected == runTrackSelection(fTrackmap, frame, tracks, fTrackCuts, Len(tracks))
         maps == runDalitzPairing([trackmap |-> selected, dalitzmap |-> fDalitzmap],
                                  frame, tracks, fPairCuts, fQA)
     IN  IF isEventSelected
         THEN fTrackmap' = maps.trackmap /\ fDalitzmap' = maps.dalitzmap
         ELSE UNCHANGED <<fTrackmap, fDalitzmap>>
  /\ iCollision' = iCollision + 1
  /\ pc' = "loop"
  /\ UNCHANGED <<helperVars, skimVars, fatal, fTrackCuts, fPairCuts, fQA, frame, isEventSelected, dalitzbits>>

\* after the last collision: one DalitzBits row per track of the unfiltered
\* table
FillDalitzBits ==
  /\ pc = "loop" /\ iCollision \notin CollisionIds
  /\ dalitzbits' = [t \in TrackIds |-> MapAt(fDalitzmap, t)]
  /\ fDalitzmap' = TouchAll(fDalitzmap, [t \in TrackIds |-> t], Cardinality(TrackIds))
  /\ pc' = "filled"
  /\ UNCHANGED <<helperVars, skimVars, fatal, fTrackCuts, fPairCuts, fQA, fTrackmap, frame, iCollision, isEventSelected>>

\* processFullTracks returns: its tables and locals are gone, the two maps
\* stay in the task
ProcessFullTracksReturn ==
  /\ pc = "filled"
  /\ frame' = <<>>
  /\ dalitzbits' = <<>>
  /\ iCollision' = 0
  /\ isEventSelected' = FALSE
  /\ pc' = "ready"
  /\ UNCHANGED <<helperVars, skimVars, fatal, fTrackCuts, fPairCuts, fQA, fTrackmap, fDalitzmap>>

NextDalitz ==
  \/ DalitzInit
  \/ ProcessFullTracksBegin
  \/ CollisionBegin
  \/ CollisionRun
  \/ FillDalitzBits
  \/ ProcessFullTracksReturn

SpecDalitz == Init /\ [][NextDalitz]_vars

\* C15: init ends in the fatal state whenever the numbers of configured
\* track cuts and pair cuts differ, and does not when they are equal, both
\* lists empty included.
C15_InitFatalOnMismatch ==
  pc # "constructed" =>
    /\ fatal <=> Len(fTrackCuts) # Len(fPairCuts)
    /\ fatal <=> pc = "aborted"

\* more track cuts than pair cuts: the run is aborted
C15_Witness ==
  /\ pc = "aborted"
  /\ fatal
  /\ Len(fTrackCuts) = 2
  /\ Len(fPairCuts) = 1

\* the keys of a map that belong to collisions processed before the
\* current one
KeysOfEarlierCollisions(map) ==
  {t \in DOMAIN map : frame.trackCollision[t] \in 1 .. (iCollision - 1)}

\* C16 as stated: when the processing of a collision begins, neither
\* fTrackmap nor fDalitzmap holds an entry written while an earlier
\* collision was processed.
C16_BothMapsResetPerEvent ==
  pc = "collision" =>
    /\ KeysOfEarlierCollisions(fTrackmap) = {}
    /\ KeysOfEarlierCollisions(fDalitzmap) = {}

\* C16 amended: fTrackmap is cleared at the head of every collision and is
\* empty when the processing of a collision begins; fDalitzmap is cleared
\* once per call of processFullTracks, before the loop over collisions, and
\* when a later collision begins it holds the entries written for the
\* earlier collisions of the same data frame and no others.
C16_TrackmapResetPerEvent ==
  /\ pc = "collision" => fTrackmap = <<>>
  /\ (pc = "loop" /\ iCollision = 1) => fDalitzmap = <<>>
  /\ pc = "collision" => KeysOfEarlierCollisions(fDalitzmap) = DOMAIN fDalitzmap

\* the second collision begins with the Dalitz bits of the first one still
\* in fDalitzmap
C16_Witness ==
  /\ pc = "collision"
  /\ iCollision = 2
  /\ fTrackmap = <<>>
  /\ MapAt(fDalitzmap, 1) = 3
  /\ MapAt(fDalitzmap, 2) = 3

\* C17: when session->Run throws during inference, PredictONNX logs an
\* error and returns the unchanged default triple {-1, 2, 2}; the run is
\* not aborted, and a later call of PredictONNX returns the scores of the
\* model.
C17_InferenceFailureCaught ==
  call = "PredictONNX" =>
    /\ ~fatal
    /\ Len(ret) = 3
    /\ args.threw => (ret = DefaultScores /\ args.errorLogged)
    /\ ~args.threw => (ret = args.outputTensor /\ ~args.errorLogged)

\* a call that succeeds after the call before it failed
C17_Witness ==
  /\ call = "PredictONNX"
  /\ args.afterFailure
  /\ ~args.threw
  /\ ret = <<10, 90, 50>>

\* C18: InitONNXSession reaches LOG(fatal) and creates no session whenever
\* the retrieval of the model file fails; the retrieval is attempted only
\* with loading from CCDB enabled and a positive timestamp; in every other
\* case a session is created from onnxFile and the input shapes and the data
\* type are filled from it.
C18_InitSessionFatalOnRetrieval ==
  call = "InitONNXSession" =>
    /\ args.retrieveAttempted <=> (args.loadModelsFromCCDB /\ args.timestampCCDB > 0)
    /\ fatal <=> (args.retrieveAttempted /\ ~args.retrieveBlob)
    /\ fatal => ret.session = "nullptr"
    /\ ~fatal =>
         /\ ret.session = "Session{env, onnxFile, sessionOpt}"
         /\ ret.dataType = args.modelElementType
         /\ ret.inputShapes[2] = args.modelShape[2]
         /\ ret.inputShapes[1] = (IF args.modelShape[1] < 0 THEN 1 ELSE args.modelShape[1])

\* a failed retrieval
C18_Witness ==
  /\ call = "InitONNXSession"
  /\ args.loadModelsFromCCDB /\ args.timestampCCDB = 1 /\ ~args.retrieveBlob
  /\ fatal
  /\ ret.session = "nullptr"

\* C19: isBDTSelected returns the empty bitmask whenever the score
\* container holds fewer than 3 scores, and reads no score and no threshold
\* in that case.
C19_FewerThanThreeScoresRejected ==
  (call = "isBDTSelected" /\ Len(args.scores) < 3) =>
    /\ ret = 0
    /\ isBDTSelectedReads(args.scores, args.thresholdBDTScores) = {}

\* two scores that would pass the background and the prompt cut
C19_Witness ==
  /\ call = "isBDTSelected"
  /\ args.scores = <<10, 99>>
  /\ args.thresholdBDTScores = [BDTbkg |-> 50, BDTprompt |-> 50, BDTnonprompt |-> 50]
  /\ ret = 0

\* the combined PID deviation of the current isSelectedProton4Femto call is
\* above the threshold: |TOF| with the TOF-only option, else the quadrature
\* sum of the compared TPC deviation and the TOF deviation
FemtoCombinedAbove ==
  LET tof == args.track.tofNSigmaPr
      max == args.femtoMaxNsigmaProton
  IN  IF args.femtoProtonOnlyTOF
      THEN (IF tof < 0 THEN -tof ELSE tof) > max
      ELSE ISqrt(ComparedTPC * ComparedTPC + tof * tof) > max
           \/ (ISqrt(ComparedTPC * ComparedTPC + tof * tof) = max
               /\ ComparedTPC * ComparedTPC + tof * tof # max * max)

\* C20: isSelectedProton4Femto returns true iff pT >= the minimum proton pT,
\* |eta| <= 0.8, the track is a global track and the combined PID deviation
\* is not above the threshold; the two QA histograms are filled only for an
\* accepted track and only when activateQA > 1.
C20_Proton4FemtoSelection ==
  call = "isSelectedProton4Femto" =>
    /\ ret.selected <=> (/\ args.track.pt >= args.femtoMinProtonPt
                         /\ args.track.eta \in -8 .. 8
                         /\ args.track.isGlobalTrack = 1
                         /\ ~FemtoCombinedAbove)
    /\ Len(ret.fills) \in {0, 2}
    /\ Len(ret.fills) = 2 <=> (ret.selected /\ args.activateQA > 1)

\* an accepted track on the quadrature sum of the post-calibrated TPC and
\* the TOF deviation, with the histograms filled
C20_Witness ==
  /\ call = "isSelectedProton4Femto"
  /\ ~args.femtoProtonOnlyTOF
  /\ args.computeTPCPostCalib
  /\ args.track.tofNSigmaPr = 20
  /\ args.activateQA = 2
  /\ ret.selected
  /\ Len(ret.fills) = 2

\* C21: isCharmBaryonPreselected returns 0 whenever the opposite-charge
\* track fails the kaon test; otherwise bit 0 is set iff the first
\* same-charge track passes the proton test and, independently, bit 1 iff
\* the second one passes it.  isDplusPreselected returns BIT(0) iff the
\* opposite-charge track passes the kaon test, else 0.
C21_BaryonAndDplusBits ==
  /\ call = "isCharmBaryonPreselected" =>
       IF ~PassesAs(args.trackOppositeCharge, kKa, args.computeTPCPostCalib)
       THEN ret = 0
       ELSE /\ ret \in 0 .. 3
            /\ TESTBIT(ret, 0) <=> PassesAs(args.trackSameChargeFirst, kPr, args.computeTPCPostCalib)
            /\ TESTBIT(ret, 1) <=> PassesAs(args.trackSameChargeSecond, kPr, args.computeTPCPostCalib)
  /\ call = "isDplusPreselected" =>
       ret = (IF PassesAs(args.trackOppositeCharge, kKa, args.computeTPCPostCalib) THEN 1 ELSE 0)

\* the kaon passes, the second same-charge track passes as proton and the
\* first does not
C21_Witness ==
  /\ call = "isCharmBaryonPreselected"
  /\ PassesAs(args.trackOppositeCharge, kKa, args.computeTPCPostCalib)
  /\ ~PassesAs(args.trackSameChargeFirst, kPr, args.computeTPCPostCalib)
  /\ ret = 2

\* C22: the D+ mass-window result is unchanged when the two same-charge
\* track momenta are swapped: isSelectedDplusInMassRange(a, b, c, ...) equals
\* isSelectedDplusInMassRange(b, a, c, ...), and so does the invariant mass it
\* is computed from, both same-charge tracks being assigned the pion mass.
C22_DplusSwapSymmetric ==
  call = "isSelectedDplusInMassRange" =>
    LET a == args.cand.pTrackSameChargeFirst
        b == args.cand.pTrackSameChargeSecond
        c == args.cand.pTrackOppositeCharge
    IN  /\ ret.retValue = isSelectedDplusInMassRange(b, a, c, args.ptD, args.deltaMass)
        /\ invMassDplus(a, b, c) = invMassDplus(b, a, c)
        /\ ret.fills = DplusMassFills(b, a, c, args.ptD, args.activateQA)

\* a tagged D+ candidate whose same-charge momenta differ in magnitude
C22_Witness ==
  /\ call = "isSelectedDplusInMassRange"
  /\ args.cand.pTrackSameChargeFirst = <<-300, -100, 250>>
  /\ args.cand.pTrackSameChargeSecond = <<-750, -50, -350>>
  /\ ret.retValue = 1

\* C23: computeRelativeMomentum returns the same value when the track
\* momentum and the charm-candidate momentum are both rotated by the same
\* rotation, for every candidate mass.
C23_RotationInvariant ==
  call = "computeRelativeMomentum" =>
    \A r \in Rotations :
      computeRelativeMomentum(Rotate(r, args.trackP), Rotate(r, args.CharmCandMomentum), args.CharmMass) = ret

\* a pair that is not at rest in the laboratory and whose momenta are not
\* parallel, with a relative momentum above zero
C23_Witness ==
  /\ call = "computeRelativeMomentum"
  /\ args.trackP = <<-200, -300, 500>>
  /\ args.CharmCandMomentum = <<400, -1200, -300>>
  /\ ret > 0

\* the bit is set in what isSelectedDsInMassRange returns for some candidate,
\* some preselection tag and some mass window
DsBitSetForSomeInput(bit) ==
  \E mom \in DsMomenta, ptD \in PtCandVals, isSelected \in 0 .. 15, deltaMass \in DeltaMassVals \cup {2000} :
    TESTBIT(isSelectedDsInMassRange(mom[1], mom[2], mom[3], ptD, isSelected, deltaMass), bit)

\* C24: isSelectedDsInMassRange returns a bitmask over four hypotheses,
\* BIT(0) for KKpi, BIT(1) for piKK, BIT(2) for phipi and BIT(3) for piphi:
\* each of the bits 0, 1, 2 and 3 is set in the result for some input.
C24_FourHypothesisBits ==
  call = "isSelectedDsInMassRange" => \A bit \in 0 .. 3 : DsBitSetForSomeInput(bit)

\* the five cuts of isSelectedGamma on the current call, by number
GammaCutPasses(i) ==
  LET g == args.gamma
  IN  CASE i = 1 -> g.eta \in -8 .. 8
        [] i = 2 -> g.v0radius \in 0 .. 180
        [] i = 3 -> ~OutsideArmenteros(g.alpha, g.qtarm)
        [] i = 4 -> g.psipair \in -10 .. 10
        [] i = 5 -> args.gammaCosinePA >= 85

\* the bins of the selection histogram filled by the current call, in order
GammaSelectedBins ==
  LET RECURSIVE Bins(_)
      Bins(n) == IF n = 0 THEN <<>>
                 ELSE IF ret.fills[n].hist = "hGammaSelected"
                      THEN Append(Bins(n - 1), ret.fills[n].x[1])
                      ELSE Bins(n - 1)
  IN  Bins(Len(ret.fills))

\* C25: isSelectedGamma returns true iff the candidate passes all five cuts;
\* with activateQA > 1 every call fills the selection histogram exactly
\* twice: bin 0, then the number of the first failing cut in the order eta,
\* radius, Armenteros, psipair, pointing angle, or 6 when it is accepted.
C25_GammaSelection ==
  call = "isSelectedGamma" =>
    /\ ret.selected <=> \A i \in 1 .. 5 : GammaCutPasses(i)
    /\ args.activateQA > 1 =>
         /\ Len(GammaSelectedBins) = 2
         /\ GammaSelectedBins[1] = 0
         /\ GammaSelectedBins[2] \in 1 .. 6
         /\ GammaSelectedBins[2] = 6 <=> ret.selected
         /\ GammaSelectedBins[2] < 6 =>
              /\ ~GammaCutPasses(GammaSelectedBins[2])
              /\ \A i \in 1 .. GammaSelectedBins[2] - 1 : GammaCutPasses(i)

\* a candidate that fails the eta cut and the radius cut is counted under
\* the eta cut
C25_Witness ==
  /\ call = "isSelectedGamma"
  /\ args.activateQA = 2
  /\ ~GammaCutPasses(1) /\ ~GammaCutPasses(2)
  /\ GammaSelectedBins = <<0, 1>>

\* the pair of two different tracks as the pair loop forms it
OrderedPair(t, u) == IF t < u THEN <<t, u>> ELSE <<u, t>>

\* track u makes track t a Dalitz leg under cut i: both are filtered tracks
\* of the same collision that pass track cut i, their signs are not equal
\* up to a positive factor, and the pair passes pair cut i
DalitzPartner(t, u, i) ==
  /\ u # t
  /\ frame.trackCollision[u] = frame.trackCollision[t]
  /\ frame.filtered[u]
  /\ i \in frame.trackPass[u]
  /\ ~(frame.sign[t] * frame.sign[u] > 0)
  /\ i \in frame.pairPass[OrderedPair(t, u)]

\* track t belongs to a collision that passes the event cut
InSelectedCollision(t) ==
  /\ frame.trackCollision[t] \in CollisionIds
  /\ frame.eventSel[frame.trackCollision[t]]

\* the track-cut bits runTrackSelection gives track t
TrackCutBits(t) == TrackFilterMap(frame, t, fTrackCuts, Len(fTrackCuts))

\* C26: after processFullTracks, for every track t and every cut index i
\* below 8, bit i of the value emitted for t is set iff t belongs to a
\* collision that passes the event cut, t passes the barrel filter and track
\* cut i, and the same collision holds another filtered track u passing track
\* cut i, of sign product with t not positive, such that the pair passes pair
\* cut i.  The emitted bits are a subset of the track-cut bits of the track.
C26_DalitzBitsMeaning ==
  pc = "filled" =>
    \A t \in TrackIds :
      /\ \A i \in 0 .. 7 :
           TESTBIT(dalitzbits[t], i) <=>
             /\ i < Len(fTrackCuts)
             /\ InSelectedCollision(t)
             /\ frame.filtered[t]
             /\ i \in frame.trackPass[t]
             /\ \E u \in TrackIds : DalitzPartner(t, u, i)
      /\ BitsSubset(dalitzbits[t], TrackCutBits(t))

\* track 1 is a leg under cut 0 with track 3 only and under cut 1 with track
\* 2 only
C26_Witness ==
  /\ pc = "filled"
  /\ dalitzbits = <<3, 2, 1>>
  /\ ~DalitzPartner(1, 2, 0)
  /\ DalitzPartner(1, 3, 0)
  /\ DalitzPartner(1, 2, 1)

\* C27: every call of processFullTracks writes exactly one DalitzBits row
\* per track of the unfiltered table, in table order, whatever the
\* selections decide; a track in no selected collision, dropped by the barrel
\* filter or without collision gets 0, and every bit of a row comes from the
\* data frame of the call, none from an earlier call: fDalitzmap is empty
\* when the loop over the collisions starts.
C27_OneRowPerTrack ==
  /\ (pc = "loop" /\ iCollision = 1) => DOMAIN fDalitzmap = {}
  /\ pc = "filled" =>
      /\ DOMAIN dalitzbits = TrackIds
      /\ \A t \in TrackIds :
           /\ dalitzbits[t] \in 0 .. 255
           /\ (~InSelectedCollision(t) \/ ~frame.filtered[t]) => dalitzbits[t] = 0
           /\ dalitzbits[t] # 0 => \E u \in TrackIds \ {t}, i \in 0 .. 7 :
                                     TESTBIT(dalitzbits[u], i) /\ TESTBIT(dalitzbits[t], i)
                                     /\ InSelectedCollision(u) /\ frame.filtered[u]
                                     /\ frame.trackCollision[u] = frame.trackCollision[t]

\* rows of three tracks: a pair of legs and a track without collision that
\* passes the barrel filter and track cut 0
C27_Witness ==
  /\ pc = "filled"
  /\ frame.trackCollision[3] = 0
  /\ frame.filtered[3]
  /\ frame.trackPass[3] = {0}
  /\ dalitzbits = <<1, 1, 0>>

\* the data frame without the decisions of the cuts of index 8 and above
LowCutsFrame(fr) ==
  [fr EXCEPT !.trackPass = [t \in TrackIds |-> fr.trackPass[t] \cap 0 .. 7],
             !.pairPass = [pair \in TrackPairs |-> fr.pairPass[pair] \cap 0 .. 7]]

\* what the loop body of a selected collision makes of the two maps
CollisionMaps(fr) ==
  LET tracks == GroupedFilteredTracks(fr, iCollision)
  IN  runDalitzPairing([trackmap |-> runTrackSelection(fTrackmap, fr, tracks, fTrackCuts, Len(tracks)),
                        dalitzmap |-> fDalitzmap],
                       fr, tracks, fPairCuts, fQA)

\* C28: only the first 8 (track cut, pair cut) pairs contribute to the
\* 8-bit maps: a cut of index 8 or above sets no bit in fTrackmap or
\* fDalitzmap and changes none of the bits 0..7: the maps after a collision
\* are those of the same collision with the decisions of these cuts removed.
C28_HighCutsIgnored ==
  [][(pc = "collision" /\ isEventSelected) =>
       /\ fTrackmap' = CollisionMaps(LowCutsFrame(frame)).trackmap
       /\ fDalitzmap' = CollisionMaps(LowCutsFrame(frame)).dalitzmap
       /\ \A t \in DOMAIN fTrackmap' : fTrackmap'[t] \in 0 .. 255
       /\ \A t \in DOMAIN fDalitzmap' : fDalitzmap'[t] \in 0 .. 255]_vars

\* nine cuts: both tracks pass track cuts 0 and 8 and the pair passes pair
\* cuts 0 and 8, and only bit 0 is in the maps
C28_Witness ==
  /\ pc = "loop"
  /\ iCollision = 2
  /\ Len(fTrackCuts) = 9
  /\ frame.eventSel[1]
  /\ frame.filtered[1] /\ frame.filtered[2]
  /\ frame.trackPass[1] = {0, 8} /\ frame.trackPass[2] = {0, 8}
  /\ frame.pairPass[<<1, 2>>] = {0, 8}
  /\ frame.sign[2] = -1
  /\ MapAt(fTrackmap, 1) = 1
  /\ MapAt(fDalitzmap, 1) = 1

\* the clusters gone through that are inside both windows, in input order
ClustersInBothWindows ==
  SelectSeq(caloclusters, LAMBDA c : /\ c.time >= minTime /\ c.time <= maxTime
                                     /\ c.m02 >= minM02 /\ c.m02 <= maxM02)

\* the clusters gone through that are outside the time window
ClustersOutsideTime ==
  SelectSeq(caloclusters, LAMBDA c : ~(c.time >= minTime /\ c.time <= maxTime))

DplusDeltaMass ==
  Abs(invMassDplus(args.cand.pTrackSameChargeFirst, args.cand.pTrackSameChargeSecond,
                   args.cand.pTrackOppositeCharge) - massDPlus)

\* C30: the mass-window taggers treat the edge of the window differently:
\* isSelectedDplusInMassRange accepts a candidate whose |mass - PDG mass|
\* equals delta and rejects only a strictly greater difference, while the
\* D0, Ds, Lc and Xic taggers do not set the bit of a hypothesis whose
\* difference equals delta.
C30_WindowEdge ==
  /\ call = "isSelectedDplusInMassRange" =>
       /\ DplusDeltaMass = args.deltaMass => ret.retValue = BIT(0)
       /\ ret.retValue = 0 <=> DplusDeltaMass > args.deltaMass
  /\ call \in TwoHypothesisCalls =>
       \A i \in {0, 1} : HypothesisDeltaMass(i) = args.deltaMass => ~TESTBIT(ret.retValue, i)

\* a D+ candidate exactly on the edge of the window, tagged
C30_Witness ==
  /\ call = "isSelectedDplusInMassRange"
  /\ DplusDeltaMass = args.deltaMass
  /\ ret.retValue = 1

Next == NextCount \/ NextBDT \/ NextPID \/ NextMass \/ NextV0 \/ NextKin \/ NextDalitz \/ NextSkim

Spec == Init /\ [][Next]_vars

=============================================================================
